---------------------------- MODULE Spec2Model ----------------------------
(***************************************************************************)
(* Query resolution and caching engine of the MIMIC-IV FHIR R4 API server  *)
(* (src/main.py): parameter parsing, predicate compilation, counting and   *)
(* paging over line-delimited files, the line-count index and the two      *)
(* cache key spaces.                                                       *)
(*                                                                         *)
(* Conventions.                                                            *)
(*  - An Optional[...] value is a sequence of length <= 1: <<>> is None,    *)
(*    <<v>> is the value v.                                                *)
(*  - A raw string the code parses or searches is a sequence of one-token  *)
(*    strings, so that int(), fromisoformat(), split('/'), endswith() and  *)
(*    the substring test `in` are computed, not assumed.                   *)
(*  - A function of the code that may raise returns a record with an err   *)
(*    field; err = TRUE is the exception leaving the function.             *)
(***************************************************************************)
EXTENDS Integers, Sequences, FiniteSets, TLC

VARIABLES BASE_URL, disk, file_line_counts, resource_cache, bundle_cache, started, call,
          resp, resolved, probe, inflight

vars == <<BASE_URL, disk, file_line_counts, resource_cache, bundle_cache, started, call,
          resp, resolved, probe, inflight>>

(***************************************************************************)
(* A request as a handler receives it: the operation, the path's record    *)
(* type, the query parameters, the limit of a direct page call, the path's *)
(* record id, the If-None-Match header and the base URL it arrived under.  *)
(***************************************************************************)
Call(op, rt, params, count, id, inm, base) ==
    [op |-> op, rt |-> rt, params |-> params, count |-> count, id |-> id,
     inm |-> inm, base |-> base]

(***************************************************************************)
(* Generic helpers on Optional values and on raw strings.                  *)
(***************************************************************************)
None == <<>>

Some(v) == <<v>>

IsNone(o) == o = <<>>

\* Python truthiness of an Optional[str]: not None and not the empty string.
TruthyStr(o) == o # <<>> /\ o[1] # <<>>

\* Python truthiness of an Optional[int]: not None and not zero.
TruthyInt(o) == o # <<>> /\ o[1] # 0

Min(a, b) == IF a <= b THEN a ELSE b

Max(a, b) == IF a >= b THEN a ELSE b

\* s.endswith(suffix)
EndsWith(s, suffix) ==
    /\ Len(suffix) <= Len(s)
    /\ SubSeq(s, Len(s) - Len(suffix) + 1, Len(s)) = suffix

\* needle in s  (substring test)
Contains(s, needle) ==
    \E i \in 1..(Len(s) - Len(needle) + 1) : SubSeq(s, i, i + Len(needle) - 1) = needle

\* s.split('/')[-1] if '/' in s else s : the part after the last "/"
RECURSIVE LastSegment(_)
LastSegment(s) ==
    IF \A i \in 1..Len(s) : s[i] # "/" THEN s
    ELSE LastSegment(Tail(s))

\* s.replace('Z', '+00:00')
RECURSIVE ReplaceZ(_)
ReplaceZ(s) ==
    IF s = <<>> THEN <<>>
    ELSE <<(IF Head(s) = "Z" THEN "+00:00" ELSE Head(s))>> \o ReplaceZ(Tail(s))

(***************************************************************************)
(* int(): an optional sign (- or +) followed by one or more decimal digits. *)
(***************************************************************************)
DigitVal(c) ==
    CASE c = "0" -> 0 [] c = "1" -> 1 [] c = "2" -> 2 [] c = "3" -> 3
      [] c = "4" -> 4 [] c = "5" -> 5 [] c = "6" -> 6 [] c = "7" -> 7
      [] c = "8" -> 8 [] c = "9" -> 9 [] OTHER -> -1

RECURSIVE DigitsVal(_, _)
DigitsVal(s, acc) ==
    IF s = <<>> THEN acc ELSE DigitsVal(Tail(s), 10 * acc + DigitVal(Head(s)))

AllDigits(s) == s # <<>> /\ \A i \in 1..Len(s) : DigitVal(s[i]) >= 0

\* int(s): [err |-> TRUE] is ValueError
int(s) ==
    IF s # <<>> /\ Head(s) = "-" /\ AllDigits(Tail(s))
        THEN [err |-> FALSE, v |-> 0 - DigitsVal(Tail(s), 0)]
    ELSE IF s # <<>> /\ Head(s) = "+" /\ AllDigits(Tail(s))
        THEN [err |-> FALSE, v |-> DigitsVal(Tail(s), 0)]
    ELSE IF AllDigits(s) THEN [err |-> FALSE, v |-> DigitsVal(s, 0)]
    ELSE [err |-> TRUE, v |-> 0]

(***************************************************************************)
(* datetime.fromisoformat(): a date-time body "T<n>" (instant n), alone     *)
(* (offset-naive) or followed by the offset "+00:00" (offset-aware).        *)
(* Anything else is a ValueError.                                          *)
(***************************************************************************)
BodyVal(c) == CASE c = "T0" -> 0 [] c = "T1" -> 1 [] c = "T2" -> 2 [] c = "T3" -> 3 [] OTHER -> -1

fromisoformat(s) ==
    IF Len(s) = 1 /\ BodyVal(s[1]) >= 0
        THEN [err |-> FALSE, tz |-> FALSE, t |-> BodyVal(s[1])]
    ELSE IF Len(s) = 2 /\ BodyVal(s[1]) >= 0 /\ s[2] = "+00:00"
        THEN [err |-> FALSE, tz |-> TRUE, t |-> BodyVal(s[1])]
    ELSE [err |-> TRUE, tz |-> FALSE, t |-> 0]


(***************************************************************************)
(* str.lower() on the tokens the model uses.                               *)
(***************************************************************************)
LowerTok(c) ==
    CASE c = "A" -> "a" [] c = "B" -> "b"
      [] c = "JSON" -> "json" [] c = "HTML" -> "html"
      [] OTHER -> c

lower(s) == [i \in 1..Len(s) |-> LowerTok(s[i])]

(***************************************************************************)
(* FILE_MAPPINGS: record type -> ordered list of backing files.            *)
(***************************************************************************)
FILE_MAPPINGS ==
    [Patient |-> <<"MimicPatient.ndjson">>,
     Organization |-> <<"MimicOrganization.ndjson">>,
     Location |-> <<"MimicLocation.ndjson">>,
     Encounter |-> <<"MimicEncounter.ndjson", "MimicEncounterED.ndjson",
                     "MimicEncounterICU.ndjson">>,
     Condition |-> <<"MimicCondition.ndjson", "MimicConditionED.ndjson">>,
     Observation |-> <<"MimicObservationLabevents.ndjson",
                       "MimicObservationChartevents.ndjson",
                       "MimicObservationDatetimeevents.ndjson",
                       "MimicObservationOutputevents.ndjson",
                       "MimicObservationED.ndjson",
                       "MimicObservationVitalSignsED.ndjson",
                       "MimicObservationMicroTest.ndjson",
                       "MimicObservationMicroOrg.ndjson",
                       "MimicObservationMicroSusc.ndjson">>,
     Procedure |-> <<"MimicProcedure.ndjson", "MimicProcedureED.ndjson",
                     "MimicProcedureICU.ndjson">>,
     Medication |-> <<"MimicMedication.ndjson", "MimicMedicationMix.ndjson">>,
     MedicationRequest |-> <<"MimicMedicationRequest.ndjson">>,
     MedicationAdministration |-> <<"MimicMedicationAdministration.ndjson",
                                    "MimicMedicationAdministrationICU.ndjson">>,
     MedicationDispense |-> <<"MimicMedicationDispense.ndjson",
                              "MimicMedicationDispenseED.ndjson">>,
     MedicationStatement |-> <<"MimicMedicationStatementED.ndjson">>,
     Specimen |-> <<"MimicSpecimen.ndjson", "MimicSpecimenLab.ndjson">>]

KnownTypes == DOMAIN FILE_MAPPINGS

AllFiles == UNION {{FILE_MAPPINGS[t][i] : i \in 1..Len(FILE_MAPPINGS[t])} : t \in KnownTypes}

(***************************************************************************)
(* FHIRSearchParameters.  params is dict(request.query_params): a total    *)
(* function on ParamKeys whose value is None for a key that is not in the  *)
(* dict and Some(raw string) for a key that is.                            *)
(***************************************************************************)
ParamKeys == {"_id", "_count", "_format", "_since", "_summary",
              "subject", "patient", "category", "name", "identifier"}

NoParams == [k \in ParamKeys |-> None]

\* key in search_params.params
HasKey(params, k) == params[k] # None

\* len(search_params.params)
NumParams(params) == Cardinality({k \in ParamKeys : params[k] # None})

\* x or y on two Optional[str]
OrElse(x, y) == IF TruthyStr(x) THEN x ELSE y

\* a variant of parse_count that reads a non-integer _count as the limit 1
parse_count_lenient(count_param) ==
    IF count_param = None THEN None
    ELSE LET r == int(count_param[1])
         IN IF r.err THEN Some(1) ELSE Some(Max(0, r.v))

\* a variant of parse_count with the clamp of negative values left out
parse_count_unclamped(count_param) ==
    IF count_param = None THEN None
    ELSE LET r == int(count_param[1])
         IN IF r.err THEN None ELSE Some(r.v)

parse_count(count_param) ==
    IF count_param = None THEN None
    ELSE LET r == int(count_param[1])
         IN IF r.err THEN None ELSE Some(Max(0, r.v))

parse_format(format_param) ==
    IF format_param = None THEN "json"
    ELSE LET f == lower(format_param[1])
         IN IF f \in {<<"json">>, <<"application/json">>, <<"application/fhir+json">>}
                THEN "json"
            ELSE IF f \in {<<"html">>, <<"text/html">>} THEN "html"
            ELSE "json"

parse_since(since_param) ==
    IF since_param = None THEN None
    ELSE LET s == IF EndsWith(since_param[1], <<"Z">>)
                      THEN ReplaceZ(since_param[1]) ELSE since_param[1]
             r == fromisoformat(s)
         IN IF r.err THEN None ELSE Some([tz |-> r.tz, t |-> r.t])

FHIRSearchParameters(query_params) ==
    [params |-> query_params,
     id |-> query_params["_id"],
     count |-> parse_count(query_params["_count"]),
     format |-> parse_format(query_params["_format"]),
     since |-> parse_since(query_params["_since"]),
     summary |-> query_params["_summary"]]

DefaultCount == 100

MaxLimit == 1000

get_count_with(sp, default, max_limit) ==
    IF sp.count = None THEN default ELSE Min(sp.count[1], max_limit)

get_count(sp) == get_count_with(sp, DefaultCount, MaxLimit)

(***************************************************************************)
(* Records.  A parsed resource is a record of the fields the predicates    *)
(* read:                                                                   *)
(*   id          Optional[str]                                             *)
(*   lastUpdated meta.lastUpdated: [k |-> "absent"], a string              *)
(*               [k |-> "str", s |-> raw] or a non-zero number [k |-> "num"]*)
(*   subject     subject.reference, Optional[str]                          *)
(*   category    list of categories; a category is [k |-> "nocoding"] (no  *)
(*               coding key) or [k |-> "coding", codes |-> list of         *)
(*               Optional[str]] (the code of each coding entry)            *)
(*   name        list of [given |-> list of str, family |-> str]           *)
(*   identifier  list of [system |-> Optional[str], value |-> Optional[str]]*)
(***************************************************************************)
TsAbsent == [k |-> "absent", s |-> <<>>]

TsStr(raw) == [k |-> "str", s |-> raw]

TsNum == [k |-> "num", s |-> <<>>]

Resource(id, ts, subject, category, name, identifier) ==
    [id |-> id, lastUpdated |-> ts, subject |-> subject, category |-> category,
     name |-> name, identifier |-> identifier]

\* if last_updated:  (truthiness of meta.get('lastUpdated'))
TruthyTs(ts) == ts.k = "num" \/ (ts.k = "str" /\ ts.s # <<>>)

(***************************************************************************)
(* The _since clause of search_filter: "false" rejects the record, "pass"  *)
(* goes on to the type-specific clauses, "raise" is an exception that is   *)
(* not caught (AttributeError on a non-string timestamp, TypeError on the  *)
(* comparison of an offset-naive with an offset-aware datetime).           *)
(***************************************************************************)
since_clause(resource, sp) ==
    IF sp.since = None THEN "pass"
    ELSE LET last_updated == resource.lastUpdated
         IN IF ~TruthyTs(last_updated) THEN "pass"
            ELSE IF last_updated.k = "num" THEN "raise"
            ELSE LET s == IF EndsWith(last_updated.s, <<"Z">>)
                              THEN ReplaceZ(last_updated.s) ELSE last_updated.s
                     d == fromisoformat(s)
                 IN IF d.err THEN "pass"
                    ELSE IF d.tz # sp.since[1].tz THEN "raise"
                    ELSE IF d.t < sp.since[1].t THEN "false"
                    ELSE "pass"

Verdict(b) == IF b THEN "true" ELSE "false"

\* resource.get('subject', {}).get('reference', '')
SubjectRef(resource) == IF resource.subject = None THEN <<>> ELSE resource.subject[1]

\* any(name_param in given.lower() for given in given_names)
AnyGiven(name_param, given_names) ==
    \E i \in 1..Len(given_names) : Contains(lower(given_names[i]), name_param)

RECURSIVE NameLoop(_, _)
NameLoop(name_param, patient_names) ==
    IF patient_names = <<>> THEN FALSE
    ELSE LET name_obj == Head(patient_names)
         IN IF AnyGiven(name_param, name_obj.given) THEN TRUE
            ELSE IF Contains(lower(name_obj.family), name_param) THEN TRUE
            ELSE NameLoop(name_param, Tail(patient_names))

\* identifier_param.split('|', 1)
BarIndex(s) == IF \E i \in 1..Len(s) : s[i] = "|"
               THEN CHOOSE i \in 1..Len(s) : s[i] = "|" /\ \A j \in 1..(i - 1) : s[j] # "|"
               ELSE 0

RECURSIVE IdentifierLoop(_, _)
IdentifierLoop(identifier_param, patient_identifiers) ==
    IF patient_identifiers = <<>> THEN FALSE
    ELSE LET identifier == Head(patient_identifiers)
             b == BarIndex(identifier_param)
         IN IF identifier.value = Some(identifier_param) THEN TRUE
            ELSE IF b > 0
                    /\ identifier.system = Some(SubSeq(identifier_param, 1, b - 1))
                    /\ identifier.value = Some(SubSeq(identifier_param, b + 1, Len(identifier_param)))
                 THEN TRUE
            ELSE IdentifierLoop(identifier_param, Tail(patient_identifiers))

patient_search_filter(resource, sp) ==
    IF HasKey(sp.params, "name")
       /\ ~NameLoop(lower(sp.params["name"][1]), resource.name)
        THEN "false"
    ELSE IF HasKey(sp.params, "identifier")
            /\ ~IdentifierLoop(sp.params["identifier"][1], resource.identifier)
        THEN "false"
    ELSE "true"

\* any(cat.get('coding', [{}])[0].get('code') == category_param for cat in cats):
\* "raise" is the IndexError of [0] on an empty coding list.
RECURSIVE CategoryAny(_, _)
CategoryAny(category_param, cats) ==
    IF cats = <<>> THEN "false"
    ELSE LET cat == Head(cats)
         IN IF cat.k = "coding" /\ cat.codes = <<>> THEN "raise"
            ELSE IF cat.k = "coding" /\ cat.codes[1] = Some(category_param) THEN "true"
            ELSE CategoryAny(category_param, Tail(cats))

observation_search_filter(resource, sp) ==
    LET subject_param == OrElse(sp.params["subject"], sp.params["patient"])
    IN IF TruthyStr(subject_param)
          /\ ~EndsWith(SubjectRef(resource), <<"/">> \o LastSegment(subject_param[1]))
           THEN "false"
       ELSE IF HasKey(sp.params, "category")
           THEN CategoryAny(sp.params["category"][1], resource.category)
       ELSE "true"

encounter_search_filter(resource, sp) ==
    LET subject_param == OrElse(sp.params["subject"], sp.params["patient"])
    IN IF TruthyStr(subject_param)
          /\ ~EndsWith(SubjectRef(resource), <<"/">> \o LastSegment(subject_param[1]))
           THEN "false"
       ELSE "true"

condition_search_filter(resource, sp) ==
    LET subject_param == OrElse(sp.params["subject"], sp.params["patient"])
    IN IF TruthyStr(subject_param)
          /\ ~EndsWith(SubjectRef(resource), <<"/">> \o LastSegment(subject_param[1]))
           THEN "false"
       ELSE "true"

procedure_search_filter(resource, sp) ==
    LET subject_param == OrElse(sp.params["subject"], sp.params["patient"])
    IN IF TruthyStr(subject_param)
          /\ ~EndsWith(SubjectRef(resource), <<"/">> \o LastSegment(subject_param[1]))
           THEN "false"
       ELSE "true"

medication_request_search_filter(resource, sp) ==
    LET subject_param == OrElse(sp.params["subject"], sp.params["patient"])
    IN IF TruthyStr(subject_param)
          /\ ~EndsWith(SubjectRef(resource), <<"/">> \o LastSegment(subject_param[1]))
           THEN "false"
       ELSE "true"

medication_administration_search_filter(resource, sp) ==
    LET subject_param == OrElse(sp.params["subject"], sp.params["patient"])
    IN IF TruthyStr(subject_param)
          /\ ~EndsWith(SubjectRef(resource), <<"/">> \o LastSegment(subject_param[1]))
           THEN "false"
       ELSE "true"

medication_dispense_search_filter(resource, sp) ==
    LET subject_param == OrElse(sp.params["subject"], sp.params["patient"])
    IN IF TruthyStr(subject_param)
          /\ ~EndsWith(SubjectRef(resource), <<"/">> \o LastSegment(subject_param[1]))
           THEN "false"
       ELSE "true"

medication_statement_search_filter(resource, sp) ==
    LET subject_param == OrElse(sp.params["subject"], sp.params["patient"])
    IN IF TruthyStr(subject_param)
          /\ ~EndsWith(SubjectRef(resource), <<"/">> \o LastSegment(subject_param[1]))
           THEN "false"
       ELSE "true"

\* a variant of specimen_search_filter that reads the value under subject only
specimen_search_filter_subject_only(resource, sp) ==
    LET subject_param == sp.params["subject"]
    IN IF TruthyStr(subject_param)
          /\ ~EndsWith(SubjectRef(resource), <<"/">> \o LastSegment(subject_param[1]))
           THEN "false"
       ELSE "true"

specimen_search_filter(resource, sp) ==
    LET subject_param == OrElse(sp.params["subject"], sp.params["patient"])
    IN IF TruthyStr(subject_param)
          /\ ~EndsWith(SubjectRef(resource), <<"/">> \o LastSegment(subject_param[1]))
           THEN "false"
       ELSE "true"

(***************************************************************************)
(* create_search_filter.  The closure search_filter is the operator        *)
(* search_filter(resource_type, sp, resource) with verdict "true",         *)
(* "false" or "raise"; create_search_filter returns Some([rt, sp]) (the    *)
(* closure's captured variables) or None.                                  *)
(***************************************************************************)
search_filter(resource_type, sp, resource) ==
    IF TruthyStr(sp.id) THEN Verdict(resource.id = sp.id)
    ELSE LET s == since_clause(resource, sp)
         IN IF s # "pass" THEN s
            ELSE CASE resource_type = "Patient" -> patient_search_filter(resource, sp)
                   [] resource_type = "Observation" -> observation_search_filter(resource, sp)
                   [] resource_type = "Encounter" -> encounter_search_filter(resource, sp)
                   [] resource_type = "Condition" -> condition_search_filter(resource, sp)
                   [] resource_type = "Procedure" -> procedure_search_filter(resource, sp)
                   [] resource_type = "MedicationRequest" ->
                          medication_request_search_filter(resource, sp)
                   [] resource_type = "MedicationAdministration" ->
                          medication_administration_search_filter(resource, sp)
                   [] resource_type = "MedicationDispense" ->
                          medication_dispense_search_filter(resource, sp)
                   [] resource_type = "MedicationStatement" ->
                          medication_statement_search_filter(resource, sp)
                   [] resource_type = "Specimen" -> specimen_search_filter(resource, sp)
                   [] OTHER -> "true"

has_resource_params(resource_type, sp) ==
    IF resource_type = "Patient"
        THEN \E key \in {"name", "identifier"} : HasKey(sp.params, key)
    ELSE IF resource_type = "Observation"
        THEN \E key \in {"subject", "patient", "category"} : HasKey(sp.params, key)
    ELSE IF resource_type = "Encounter"
        THEN \E key \in {"subject", "patient"} : HasKey(sp.params, key)
    ELSE IF resource_type \in {"Condition", "Procedure", "MedicationRequest",
                               "MedicationAdministration", "MedicationDispense",
                               "MedicationStatement", "Specimen"}
        THEN \E key \in {"subject", "patient"} : HasKey(sp.params, key)
    ELSE FALSE

create_search_filter(resource_type, sp) ==
    IF TruthyStr(sp.id) \/ sp.since # None \/ has_resource_params(resource_type, sp)
        THEN Some([rt |-> resource_type, sp |-> sp])
    ELSE None

\* filter_func is None or filter_func(resource)
ApplyFilter(filter_func, resource) ==
    IF filter_func = None THEN "true"
    ELSE search_filter(filter_func[1].rt, filter_func[1].sp, resource)

(***************************************************************************)
(* Stored lines.  A line of a backing file is                              *)
(*   [kind |-> "blank"]  whitespace only (line.strip() is empty)           *)
(*   [kind |-> "res"]    the JSON text of res, serialized compactly        *)
(*                       (fmt = "compact": "reference":"Patient/x") or     *)
(*                       with a space after the colon (fmt = "spaced")     *)
(*   [kind |-> "bad"]    the same text cut before its closing brace: it    *)
(*                       is not blank and json.loads raises JSONDecodeError*)
(* LineText is the line as a sequence of tokens: "reference:" stands for   *)
(* the quoted key and its colon, "'" for a double quote, " " for a space.  *)
(***************************************************************************)
EmptyResource == Resource(None, TsAbsent, None, <<>>, <<>>, <<>>)

BlankLine == [kind |-> "blank", res |-> EmptyResource, fmt |-> "compact"]

ResLine(res, fmt) == [kind |-> "res", res |-> res, fmt |-> fmt]

BadLine(res, fmt) == [kind |-> "bad", res |-> res, fmt |-> fmt]

SubjectText(line) ==
    IF line.res.subject = None THEN <<>>
    ELSE <<"subject:", "{", "reference:">>
         \o (IF line.fmt = "spaced" THEN <<" ">> ELSE <<>>)
         \o <<"'">> \o line.res.subject[1] \o <<"'", "}">>

LineText(line) ==
    IF line.kind = "blank" THEN <<>>
    ELSE <<"{", "id:">> \o (IF line.res.id = None THEN <<>> ELSE line.res.id[1])
         \o SubjectText(line)
         \o (IF line.kind = "res" THEN <<"}">> ELSE <<>>)

\* line.strip() is non-empty
NonBlank(line) == line.kind # "blank"

\* json.loads(line): err is JSONDecodeError
json_loads(line) == [err |-> line.kind # "res", resource |-> line.res]

\* A file of the data directory: it exists or not, and holds lines.  The disk maps
\* the names of the files that exist to their lines.
MissingFile == [exists |-> FALSE, lines |-> <<>>]

File(lines) == [exists |-> TRUE, lines |-> lines]

\* os.path.exists(filepath) and open(filepath)
FileAt(dsk, filename) ==
    IF filename \in DOMAIN dsk THEN File(dsk[filename]) ELSE MissingFile

(***************************************************************************)
(* read_ndjson_file(filepath, filter_func, limit).  opened counts the      *)
(* files opened for reading.                                               *)
(***************************************************************************)
RECURSIVE ReadLoop(_, _, _, _)
RECURSIVE ReadLine(_, _, _, _, _)
RECURSIVE ReadKeep(_, _, _, _, _, _)

\* if filter_func is None or filter_func(resource): results.append(resource);
\* v is the predicate's verdict, an exception it raises leaves the loop
ReadKeep(lines, filter_func, limit, results, resource, v) ==
    IF v = "raise" THEN [err |-> TRUE, results |-> results]
    ELSE ReadLoop(Tail(lines), filter_func, limit,
                  IF v = "true" THEN Append(results, resource) ELSE results)

\* try: resource = json.loads(line) ... except json.JSONDecodeError: continue;
\* j is what json.loads made of the line
ReadLine(lines, filter_func, limit, results, j) ==
    IF j.err THEN ReadLoop(Tail(lines), filter_func, limit, results)
    ELSE ReadKeep(lines, filter_func, limit, results, j.resource,
                  ApplyFilter(filter_func, j.resource))

\* for line in f: if limit and len(results) >= limit: break; if line.strip(): ...
ReadLoop(lines, filter_func, limit, results) ==
    IF lines = <<>> THEN [err |-> FALSE, results |-> results]
    ELSE IF TruthyInt(limit) /\ Len(results) >= limit[1]
        THEN [err |-> FALSE, results |-> results]
    ELSE IF ~NonBlank(Head(lines))
        THEN ReadLoop(Tail(lines), filter_func, limit, results)
    ELSE ReadLine(lines, filter_func, limit, results, json_loads(Head(lines)))

\* the file was opened and read: r is what the loop over its lines gave
ReadOpened(r) == [err |-> r.err, results |-> r.results, opened |-> 1]

read_ndjson_file(file, filter_func, limit) ==
    IF ~file.exists THEN [err |-> FALSE, results |-> <<>>, opened |-> 0]
    ELSE ReadOpened(ReadLoop(file.lines, filter_func, limit, <<>>))

\* a variant of NonBlankCount that counts the blank lines too: sum(1 for line in f)
NonBlankCount_every_line(lines) == Len(lines)

\* sum(1 for line in f if line.strip())
NonBlankCount(lines) == Cardinality({i \in 1..Len(lines) : NonBlank(lines[i])})

\* count_lines_with_string(filepath, search_string)
count_lines_with_string(file, search_string) ==
    Cardinality({i \in 1..Len(file.lines) : Contains(LineText(file.lines[i]), search_string)})

(***************************************************************************)
(* count_fhir_resources_json_parse(resource_type, search_filter)           *)
(***************************************************************************)
RECURSIVE CountLines(_, _, _)
RECURSIVE CountLine(_, _, _, _)
RECURSIVE CountKeep(_, _, _, _)

\* if search_filter(resource): total_count += 1; v is the predicate's verdict
CountKeep(lines, filter_func, total, v) ==
    IF v = "raise" THEN [err |-> TRUE, total |-> total]
    ELSE CountLines(Tail(lines), filter_func, IF v = "true" THEN total + 1 ELSE total)

\* try: resource = json.loads(line) ... except json.JSONDecodeError: continue
CountLine(lines, filter_func, total, j) ==
    IF j.err THEN CountLines(Tail(lines), filter_func, total)
    ELSE CountKeep(lines, filter_func, total,
                   search_filter(filter_func[1].rt, filter_func[1].sp, j.resource))

\* for line in f: if line.strip(): if search_filter is None: total_count += 1 else: ...
CountLines(lines, filter_func, total) ==
    IF lines = <<>> THEN [err |-> FALSE, total |-> total]
    ELSE IF ~NonBlank(Head(lines)) THEN CountLines(Tail(lines), filter_func, total)
    ELSE IF filter_func = None THEN CountLines(Tail(lines), filter_func, total + 1)
    ELSE CountLine(lines, filter_func, total, json_loads(Head(lines)))

RECURSIVE CountFiles(_, _, _, _, _)
RECURSIVE CountFile(_, _, _, _, _)

\* the file was opened and counted: r is what the loop over its lines gave
CountFile(files, filter_func, dsk, opened, r) ==
    IF r.err THEN [err |-> TRUE, total |-> r.total, opened |-> opened + 1]
    ELSE CountFiles(Tail(files), filter_func, dsk, r.total, opened + 1)

\* for filename in files: if os.path.exists(filepath): with open(filepath) ...
CountFiles(files, filter_func, dsk, total, opened) ==
    IF files = <<>> THEN [err |-> FALSE, total |-> total, opened |-> opened]
    ELSE IF Head(files) \notin DOMAIN dsk
        THEN CountFiles(Tail(files), filter_func, dsk, total, opened)
    ELSE CountFile(files, filter_func, dsk, opened,
                   CountLines(dsk[Head(files)], filter_func, total))

count_fhir_resources_json_parse(resource_type, filter_func, dsk) ==
    IF resource_type \notin KnownTypes THEN [err |-> FALSE, total |-> 0, opened |-> 0]
    ELSE CountFiles(FILE_MAPPINGS[resource_type], filter_func, dsk, 0, 0)

\* count_fhir_resources: the wrapper used by the full-mode search
count_fhir_resources(resource_type, filter_func, dsk) ==
    count_fhir_resources_json_parse(resource_type, filter_func, dsk)

(***************************************************************************)
(* count_fhir_resources_optimized(resource_type, search_params,            *)
(* search_filter).  flc is file_line_counts: the dict filename -> count.    *)
(***************************************************************************)
\* file_line_counts[filename] = count
SetCount(flc, filename, count) ==
    [f \in (DOMAIN flc) \cup {filename} |-> IF f = filename THEN count ELSE flc[f]]

\* Case 1: no filter, cached line counts with the fallback on a miss
RECURSIVE CountCached(_, _, _, _, _)
RECURSIVE CountFallback(_, _, _, _, _, _)

\* a variant of CountFallback that does not store the count in file_line_counts
CountFallback_unstored(files, flc, dsk, total, opened, count) ==
    CountCached(Tail(files), flc, dsk, total + count, opened + 1)

\* the fallback: file_line_counts[filename] = count; total_count += count
CountFallback(files, flc, dsk, total, opened, count) ==
    CountCached(Tail(files), SetCount(flc, Head(files), count), dsk, total + count,
                opened + 1)

CountCached(files, flc, dsk, total, opened) ==
    IF files = <<>> THEN [err |-> FALSE, total |-> total, flc |-> flc, opened |-> opened]
    ELSE IF Head(files) \in DOMAIN flc
        THEN CountCached(Tail(files), flc, dsk, total + flc[Head(files)], opened)
    ELSE IF Head(files) \in DOMAIN dsk
        THEN CountFallback(files, flc, dsk, total, opened, NonBlankCount(dsk[Head(files)]))
    ELSE CountCached(Tail(files), flc, dsk, total, opened)

\* the three search strings of Case 2, in the order they are tried
SearchStrings(patient_id) ==
    << <<"reference:", "'", "Patient", "/">> \o patient_id \o <<"'">>,
       <<"reference:", " ", "'", "Patient", "/">> \o patient_id \o <<"'">>,
       <<"Patient", "/">> \o patient_id >>

\* for search_string in search_strings: ... if count > 0: total += count; break
RECURSIVE FirstHit(_, _, _)
RECURSIVE TryString(_, _, _, _)

\* count = count_lines_with_string(...); if count > 0: total_count += count; break
TryString(file, search_strings, tried, count) ==
    IF count > 0 THEN [count |-> count, tried |-> tried + 1]
    ELSE FirstHit(file, Tail(search_strings), tried + 1)

FirstHit(file, search_strings, tried) ==
    IF search_strings = <<>> THEN [count |-> 0, tried |-> tried]
    ELSE TryString(file, search_strings, tried,
                   count_lines_with_string(file, Head(search_strings)))

RECURSIVE CountText(_, _, _, _, _)
RECURSIVE CountHits(_, _, _, _, _, _)

\* the file's hits h are added to the total
CountHits(files, patient_id, dsk, total, opened, h) ==
    CountText(Tail(files), patient_id, dsk, total + h.count, opened + h.tried)

CountText(files, patient_id, dsk, total, opened) ==
    IF files = <<>> THEN [total |-> total, opened |-> opened]
    ELSE IF Head(files) \notin DOMAIN dsk
        THEN CountText(Tail(files), patient_id, dsk, total, opened)
    ELSE CountHits(files, patient_id, dsk, total, opened,
                   FirstHit(File(dsk[Head(files)]), SearchStrings(patient_id), 0))

\* a variant of CountStrategy that takes "Only this filter" by the letter: the text
\* pre-filter whenever subject or patient is the only filtering parameter
CountStrategy_only_filter(search_params, filter_func) ==
    IF filter_func = None THEN "index"
    ELSE IF search_params # None
            /\ TruthyStr(OrElse(search_params[1].params["subject"],
                                search_params[1].params["patient"]))
            /\ NumParams([search_params[1].params EXCEPT !["_summary"] = None,
                                                         !["_count"] = None,
                                                         !["_format"] = None]) = 1
        THEN "text"
    ELSE "parse"

\* which of the three cases count_fhir_resources_optimized takes
CountStrategy(search_params, filter_func) ==
    IF filter_func = None THEN "index"
    ELSE IF search_params # None
            /\ TruthyStr(OrElse(search_params[1].params["subject"],
                                search_params[1].params["patient"]))
            /\ NumParams(search_params[1].params) = 1
        THEN "text"
    ELSE "parse"

\* patient_id = subject_param.split('/')[-1] if '/' in subject_param else subject_param
PatientIdOf(sp) == LastSegment(OrElse(sp.params["subject"], sp.params["patient"])[1])

\* return total_count (Cases 2 and 3 leave file_line_counts alone)
Counted(flc, err, r) == [err |-> err, total |-> r.total, flc |-> flc, opened |-> r.opened]

CountedParse(flc, r) == [err |-> r.err, total |-> r.total, flc |-> flc, opened |-> r.opened]

count_fhir_resources_optimized(resource_type, search_params, filter_func, flc, dsk) ==
    IF resource_type \notin KnownTypes
        THEN [err |-> FALSE, total |-> 0, flc |-> flc, opened |-> 0]
    ELSE LET files == FILE_MAPPINGS[resource_type]
             strategy == CountStrategy(search_params, filter_func)
         IN IF strategy = "index" THEN CountCached(files, flc, dsk, 0, 0)
            ELSE IF strategy = "text"
                THEN Counted(flc, FALSE,
                             CountText(files, PatientIdOf(search_params[1]), dsk, 0, 0))
            ELSE CountedParse(flc, count_fhir_resources_json_parse(resource_type,
                                                                   filter_func, dsk))

(***************************************************************************)
(* The cache module (cache.py is not among the sources; modelled from the  *)
(* specification's CacheLayer): a key space is a function from keys to     *)
(* values, get returns None on a miss, set replaces the entry wholesale,   *)
(* clear_all_caches wipes both key spaces.  No TTL is modelled.            *)
(***************************************************************************)
EmptyCache == [k \in {} |-> 0]

cache_get(cache, key) == IF key \in DOMAIN cache THEN Some(cache[key]) ELSE None

cache_set(cache, key, value) ==
    [k \in (DOMAIN cache) \cup {key} |-> IF k = key THEN value ELSE cache[k]]

\* f"page:{resource_type}:nofilter:{count}"
PageKey(resource_type, count) ==
    [space |-> "page", rt |-> resource_type, id |-> <<>>, count |-> count]

\* f"resource:{resource_type}:{resource_id}"
ResourceKey(resource_type, resource_id) ==
    [space |-> "resource", rt |-> resource_type, id |-> resource_id, count |-> None]

\* f"bundle:{resource_type}:{generate_cache_key(**query_params)}": the canonical
\* signature of the record type and the (order-free) query parameters
BundleKey(resource_type, query_params) == [rt |-> resource_type, params |-> query_params]

(***************************************************************************)
(* get_fhir_resources_page(resource_type, search_filter, count)            *)
(***************************************************************************)
RECURSIVE PageFiles(_, _, _, _, _, _)
RECURSIVE PageFile(_, _, _, _, _, _, _)

\* results.extend(file_results); r is what read_ndjson_file gave for the file
PageFile(files, filter_func, count, dsk, results, opened, r) ==
    IF r.err THEN [err |-> TRUE, results |-> results, opened |-> opened + r.opened]
    ELSE PageFiles(Tail(files), filter_func, count, dsk, results \o r.results,
                   opened + r.opened)

\* for filename in files: if count and len(results) >= count: break; ...
PageFiles(files, filter_func, count, dsk, results, opened) ==
    IF files = <<>> THEN [err |-> FALSE, results |-> results, opened |-> opened]
    ELSE IF TruthyInt(count) /\ Len(results) >= count[1]
        THEN [err |-> FALSE, results |-> results, opened |-> opened]
    ELSE PageFile(files, filter_func, count, dsk, results, opened,
                  read_ndjson_file(FileAt(dsk, Head(files)), filter_func,
                                   IF TruthyInt(count) THEN Some(count[1] - Len(results))
                                   ELSE None))

\* results[:count] if count else results
Truncate(results, count) ==
    IF TruthyInt(count) THEN SubSeq(results, 1, Min(count[1], Len(results))) ELSE results

\* if search_filter is None: resource_cache.set(cache_key, final_results)
PageStored(filter_func, rcache, cache_key, opened, final_results) ==
    [err |-> FALSE, page |-> final_results,
     rcache |-> IF filter_func = None THEN cache_set(rcache, cache_key, final_results)
                ELSE rcache,
     opened |-> opened]

\* r is what the loop over the files gave
PageRead(filter_func, count, rcache, cache_key, r) ==
    IF r.err THEN [err |-> TRUE, page |-> <<>>, rcache |-> rcache, opened |-> r.opened]
    ELSE PageStored(filter_func, rcache, cache_key, r.opened, Truncate(r.results, count))

\* cached_results is what resource_cache holds under the page key
PageLookup(resource_type, filter_func, count, rcache, dsk, cached_results) ==
    IF filter_func = None /\ cached_results # None
        THEN [err |-> FALSE, page |-> cached_results[1], rcache |-> rcache, opened |-> 0]
    ELSE PageRead(filter_func, count, rcache, PageKey(resource_type, count),
                  PageFiles(FILE_MAPPINGS[resource_type], filter_func, count, dsk, <<>>, 0))

get_fhir_resources_page(resource_type, filter_func, count, rcache, dsk) ==
    IF resource_type \notin KnownTypes
        THEN [err |-> FALSE, page |-> <<>>, rcache |-> rcache, opened |-> 0]
    ELSE PageLookup(resource_type, filter_func, count, rcache, dsk,
                    cache_get(rcache, PageKey(resource_type, count)))

(***************************************************************************)
(* create_fhir_bundle.  resource['id'] raises KeyError on a record without *)
(* an id.  A count-only bundle has no link: link is Optional.              *)
(***************************************************************************)
create_fhir_bundle(resources, resource_type, base_url, total_matches, self_url) ==
    IF \E i \in 1..Len(resources) : resources[i].id = None
        THEN [err |-> TRUE, bundle |-> [total |-> 0, link |-> None, entry |-> <<>>]]
    ELSE [err |-> FALSE,
          bundle |-> [total |-> total_matches,
                      link |-> Some(self_url),
                      entry |-> [i \in 1..Len(resources) |->
                                    [fullUrl |-> <<base_url, resource_type, resources[i].id[1]>>,
                                     resource |-> resources[i]]]]]

\* BASE_URL = os.getenv('FHIR_BASE_URL', 'http://localhost:8000'): the default
DefaultBaseUrl == "http://localhost:8000"

\* get_base_url(request): the configured base URL when it is not the default, else
\* scheme://netloc of the request's URL
get_base_url(request) == IF BASE_URL # DefaultBaseUrl THEN BASE_URL ELSE request.base

\* str(request.url)

SelfUrl(request) == [base |-> request.base, rt |-> request.rt, params |-> request.params]

(***************************************************************************)
(* fhir_search(resource_type, request).  The result holds the value        *)
(* returned (kind "bundle": a dict; kind "html": a PlainTextResponse       *)
(* rendering bundle; kind "error": an exception left the function), the    *)
(* shared state after the call, and what the call did: compiled counts     *)
(* create_search_filter calls, opened counts file opens, assembled says    *)
(* whether create_fhir_bundle ran, hit whether the bundle cache answered.  *)
(***************************************************************************)
NoBundle == [total |-> 0, link |-> None, entry |-> <<>>]

SearchResult(kind, bundle, bcache, rcache, flc, compiled, opened, assembled, hit) ==
    [kind |-> kind, bundle |-> bundle, bcache |-> bcache, rcache |-> rcache, flc |-> flc,
     work |-> [compiled |-> compiled, opened |-> opened, assembled |-> assembled, hit |-> hit]]

\* the count-only Bundle: c is what count_fhir_resources_optimized gave
CountOnlyBundle(bcache, rcache, c) ==
    IF c.err
        THEN SearchResult("error", NoBundle, bcache, rcache, c.flc, 1, c.opened, FALSE, FALSE)
    ELSE SearchResult("bundle", [total |-> c.total, link |-> None, entry |-> <<>>],
                      bcache, rcache, c.flc, 1, c.opened, FALSE, FALSE)

\* the _summary=count branch
CountOnlySearch(resource_type, sp, bcache, rcache, flc, dsk) ==
    CountOnlyBundle(bcache, rcache,
                    count_fhir_resources_optimized(resource_type, Some(sp),
                                                   create_search_filter(resource_type, sp),
                                                   flc, dsk))

\* a variant of FullAssembled that does not store the bundle in bundle_cache
FullAssembled_unstored(resource_type, request, sp, bcache, flc, c, p, b) ==
    IF b.err
        THEN SearchResult("error", NoBundle, bcache, p.rcache, flc, 1,
                          c.opened + p.opened, TRUE, FALSE)
    ELSE SearchResult(IF sp.format = "html" THEN "html" ELSE "bundle", b.bundle,
                      bcache, p.rcache, flc, 1, c.opened + p.opened, TRUE, FALSE)

\* bundle_cache.set(cache_key, bundle) and the return; b is what create_fhir_bundle gave
FullAssembled(resource_type, request, sp, bcache, flc, c, p, b) ==
    IF b.err
        THEN SearchResult("error", NoBundle, bcache, p.rcache, flc, 1,
                          c.opened + p.opened, TRUE, FALSE)
    ELSE SearchResult(IF sp.format = "html" THEN "html" ELSE "bundle", b.bundle,
                      cache_set(bcache, BundleKey(resource_type, request.params), b.bundle),
                      p.rcache, flc, 1, c.opened + p.opened, TRUE, FALSE)

\* bundle = create_fhir_bundle(...); p is what get_fhir_resources_page gave
FullPaged(resource_type, request, sp, bcache, rcache, flc, c, p) ==
    IF p.err
        THEN SearchResult("error", NoBundle, bcache, rcache, flc, 1,
                          c.opened + p.opened, FALSE, FALSE)
    ELSE FullAssembled(resource_type, request, sp, bcache, flc, c, p,
                       create_fhir_bundle(p.page, resource_type, get_base_url(request),
                                          c.total, SelfUrl(request)))

\* count = search_params.get_count(default=100, max_limit=1000); page_resources =
\* get_fhir_resources_page(...); c is what count_fhir_resources gave
FullCounted(resource_type, request, sp, bcache, rcache, flc, dsk, c) ==
    IF c.err
        THEN SearchResult("error", NoBundle, bcache, rcache, flc, 1, c.opened, FALSE, FALSE)
    ELSE FullPaged(resource_type, request, sp, bcache, rcache, flc, c,
                   get_fhir_resources_page(resource_type,
                                           create_search_filter(resource_type, sp),
                                           Some(get_count(sp)), rcache, dsk))

\* the branch after a bundle cache miss
FullSearch(resource_type, request, sp, bcache, rcache, flc, dsk) ==
    FullCounted(resource_type, request, sp, bcache, rcache, flc, dsk,
                count_fhir_resources(resource_type, create_search_filter(resource_type, sp),
                                     dsk))

\* sp is the parsed request, cached_bundle what bundle_cache holds for it
SearchParsed(resource_type, request, sp, cached_bundle, bcache, rcache, flc, dsk) ==
    IF sp.summary = Some(<<"count">>)
        THEN CountOnlySearch(resource_type, sp, bcache, rcache, flc, dsk)
    ELSE IF cached_bundle # None
        THEN SearchResult(IF sp.format = "html" THEN "html" ELSE "bundle",
                          cached_bundle[1], bcache, rcache, flc, 0, 0, FALSE, TRUE)
    ELSE FullSearch(resource_type, request, sp, bcache, rcache, flc, dsk)

fhir_search(resource_type, request, bcache, rcache, flc, dsk) ==
    SearchParsed(resource_type, request, FHIRSearchParameters(request.params),
                 cache_get(bcache, BundleKey(resource_type, request.params)),
                 bcache, rcache, flc, dsk)

(***************************************************************************)
(* Validators.  generate_etag hashes the canonical serialization of the    *)
(* value: the validator of a value is modelled as the value itself, tagged *)
(* with what it is.  An If-None-Match header is the text around a tag;     *)
(* strip('W/"').strip('"') removes the characters W, / and " from both     *)
(* ends, which never reaches into a hexadecimal digest.                    *)
(***************************************************************************)
BundleTag(bundle) == [of |-> "bundle", bundle |-> bundle, resource |-> EmptyResource]

ResourceTag(resource) == [of |-> "resource", bundle |-> NoBundle, resource |-> resource]

generate_etag_bundle(bundle) == BundleTag(bundle)

generate_etag_resource(resource) == ResourceTag(resource)

StripSet == {"W", "/", "'"}

Header(prefix, tag, suffix) == [prefix |-> prefix, tag |-> tag, suffix |-> suffix]

\* the header the server sends: W/"<etag>"
WeakHeader(tag) == Header(<<"W", "/", "'">>, tag, <<"'">>)

\* a variant of IfNoneMatchHits that compares the header as sent, without the strip
IfNoneMatchHits_unstripped(if_none_match, etag) ==
    /\ if_none_match # None
    /\ if_none_match[1].prefix = <<>>
    /\ if_none_match[1].suffix = <<>>
    /\ if_none_match[1].tag = etag

\* if_none_match and if_none_match.strip('W/"').strip('"') == etag
IfNoneMatchHits(if_none_match, etag) ==
    /\ if_none_match # None
    /\ \A i \in 1..Len(if_none_match[1].prefix) : if_none_match[1].prefix[i] \in StripSet
    /\ \A i \in 1..Len(if_none_match[1].suffix) : if_none_match[1].suffix[i] \in StripSet
    /\ if_none_match[1].tag = etag

\* get_last_modified(resource): the parsed instant, None when absent or unparseable
get_last_modified(resource) ==
    LET last_updated == resource.lastUpdated
    IN IF ~TruthyTs(last_updated) \/ last_updated.k = "num" THEN None
       ELSE LET d == fromisoformat(ReplaceZ(last_updated.s))
            IN IF d.err THEN None ELSE Some(d.t)

(***************************************************************************)
(* What a call returned and what it did.                                   *)
(*   kind: "none" (nothing called yet), "not_found" (HTTP 404),            *)
(*         "not_modified" (304), "bundle", "html", "resource", "error"     *)
(*         (an exception left the handler), and for the store's own        *)
(*         operations "count" and "page".                                  *)
(***************************************************************************)
NoWork == [compiled |-> 0, opened |-> 0, assembled |-> FALSE, hit |-> FALSE]

Response(kind, bundle, resource, etag, last_modified, total, page, work) ==
    [kind |-> kind, bundle |-> bundle, resource |-> resource, etag |-> etag,
     last_modified |-> last_modified, total |-> total, page |-> page, work |-> work]

Plain(kind, work) == Response(kind, NoBundle, EmptyResource, None, None, 0, <<>>, work)

NoResponse == Plain("none", NoWork)

NoCall == Call("none", "", NoParams, None, <<>>, None, "")

(***************************************************************************)
(* GET /{resource_type}: fhir_resource_search                              *)
(***************************************************************************)
\* the validators and the reply; r is what fhir_search gave
SearchReply(request, r) ==
    [resp |->
         IF r.kind = "error" THEN Plain("error", r.work)
         ELSE IF r.kind = "html"
             THEN Response("html", r.bundle, EmptyResource, None, None,
                           r.bundle.total, <<>>, r.work)
         ELSE IF IfNoneMatchHits(request.inm, generate_etag_bundle(r.bundle))
             THEN Response("not_modified", NoBundle, EmptyResource,
                           Some(generate_etag_bundle(r.bundle)), None, 0, <<>>, r.work)
         ELSE Response("bundle", r.bundle, EmptyResource, Some(generate_etag_bundle(r.bundle)),
                       None, r.bundle.total, <<>>, r.work),
     bcache |-> r.bcache, rcache |-> r.rcache, flc |-> r.flc]

fhir_resource_search(request, bcache, rcache, flc, dsk) ==
    IF request.rt \notin KnownTypes
        THEN [resp |-> Plain("not_found", NoWork), bcache |-> bcache, rcache |-> rcache,
              flc |-> flc]
    ELSE SearchReply(request, fhir_search(request.rt, request, bcache, rcache, flc, dsk))

(***************************************************************************)
(* GET /{resource_type}/{resource_id}: fhir_resource_read                  *)
(***************************************************************************)
RECURSIVE ReadFiles(_, _, _, _)
RECURSIVE ReadFile(_, _, _, _, _)

\* if file_results: resources = file_results; break
ReadFile(files, filter_func, dsk, opened, r) ==
    IF r.err THEN [err |-> TRUE, resources |-> <<>>, opened |-> opened + r.opened]
    ELSE IF r.results # <<>>
        THEN [err |-> FALSE, resources |-> r.results, opened |-> opened + r.opened]
    ELSE ReadFiles(Tail(files), filter_func, dsk, opened + r.opened)

\* for filename in files: file_results = read_ndjson_file(filepath, search_filter, 1) ...
ReadFiles(files, filter_func, dsk, opened) ==
    IF files = <<>> THEN [err |-> FALSE, resources |-> <<>>, opened |-> opened]
    ELSE ReadFile(files, filter_func, dsk, opened,
                  read_ndjson_file(FileAt(dsk, Head(files)), filter_func, Some(1)))

ReadReply(resource, request, work) ==
    LET etag == generate_etag_resource(resource)
    IN IF IfNoneMatchHits(request.inm, etag)
           THEN Response("not_modified", NoBundle, EmptyResource, Some(etag), None, 0, <<>>, work)
       ELSE Response("resource", NoBundle, resource, Some(etag),
                     get_last_modified(resource), 0, <<>>, work)

\* the work of a read that missed the record cache
ReadWork(r) == [compiled |-> 1, opened |-> r.opened, assembled |-> FALSE, hit |-> FALSE]

\* a variant of ReadScanned that remembers that no record was found, in resource_cache
ReadScanned_negative(request, bcache, rcache, flc, r) ==
    IF r.err
        THEN [resp |-> Plain("error", ReadWork(r)), bcache |-> bcache, rcache |-> rcache,
              flc |-> flc]
    ELSE IF r.resources = <<>>
        THEN [resp |-> Plain("not_found", ReadWork(r)), bcache |-> bcache,
              rcache |-> cache_set(rcache, PageKey(request.rt, None), <<>>), flc |-> flc]
    ELSE [resp |-> ReadReply(r.resources[1], request, ReadWork(r)),
          bcache |-> bcache,
          rcache |-> cache_set(rcache, ResourceKey(request.rt, request.id), r.resources[1]),
          flc |-> flc]

\* a variant of ReadScanned that does not store the record it found
ReadScanned_unstored(request, bcache, rcache, flc, r) ==
    IF r.err
        THEN [resp |-> Plain("error", ReadWork(r)), bcache |-> bcache, rcache |-> rcache,
              flc |-> flc]
    ELSE IF r.resources = <<>>
        THEN [resp |-> Plain("not_found", ReadWork(r)), bcache |-> bcache,
              rcache |-> rcache, flc |-> flc]
    ELSE [resp |-> ReadReply(r.resources[1], request, ReadWork(r)),
          bcache |-> bcache, rcache |-> rcache, flc |-> flc]

\* if not resources: raise HTTPException(404) ...; r is what the loop over the files gave
ReadScanned(request, bcache, rcache, flc, r) ==
    IF r.err
        THEN [resp |-> Plain("error", ReadWork(r)), bcache |-> bcache, rcache |-> rcache,
              flc |-> flc]
    ELSE IF r.resources = <<>>
        THEN [resp |-> Plain("not_found", ReadWork(r)), bcache |-> bcache,
              rcache |-> rcache, flc |-> flc]
    ELSE [resp |-> ReadReply(r.resources[1], request, ReadWork(r)),
          bcache |-> bcache,
          rcache |-> cache_set(rcache, ResourceKey(request.rt, request.id), r.resources[1]),
          flc |-> flc]

\* cached_resource is what resource_cache holds under the record key
ReadLookup(request, bcache, rcache, flc, dsk, cached_resource) ==
    IF cached_resource # None
        THEN [resp |-> ReadReply(cached_resource[1], request, [NoWork EXCEPT !.hit = TRUE]),
              bcache |-> bcache, rcache |-> rcache, flc |-> flc]
    ELSE ReadScanned(request, bcache, rcache, flc,
                     ReadFiles(FILE_MAPPINGS[request.rt],
                               create_search_filter(
                                   request.rt,
                                   FHIRSearchParameters(
                                       [NoParams EXCEPT !["_id"] = Some(request.id)])),
                               dsk, 0))

fhir_resource_read(request, bcache, rcache, flc, dsk) ==
    IF request.rt \notin KnownTypes
        THEN [resp |-> Plain("not_found", NoWork), bcache |-> bcache, rcache |-> rcache,
              flc |-> flc]
    ELSE ReadLookup(request, bcache, rcache, flc, dsk,
                    cache_get(rcache, ResourceKey(request.rt, request.id)))

(***************************************************************************)
(* lifespan: the startup pass that fills file_line_counts for every file   *)
(* that exists.                                                            *)
(***************************************************************************)
lifespan(flc, dsk) ==
    [f \in (DOMAIN flc) \cup (AllFiles \cap DOMAIN dsk) |->
        IF f \in DOMAIN dsk THEN NonBlankCount(dsk[f]) ELSE flc[f]]

(***************************************************************************)
(* Bounded universes: the data directory.                                  *)
(* Record ids are unique within a record type (the data model's invariant):*)
(* the k-th line of a type gets the id "r" followed by k times "i".        *)
(***************************************************************************)
MaxLines == 2

IdOf(k) == <<"r">> \o [n \in 1..k |-> "i"]

PatientRef(pid) == <<"Patient", "/">> \o pid

AwareStamp(body) == TsStr(<<body, "Z">>)

NaiveStamp(body) == TsStr(<<body>>)

LabCategory == <<[k |-> "coding", codes |-> <<Some(<<"lab">>)>>]>>

\* line shapes of an Observation file (the id is filled in by position)
ObservationShapes ==
    {ResLine(Resource(None, AwareStamp("T1"), Some(PatientRef(<<"p">>)), LabCategory, <<>>, <<>>),
             "compact"),
     ResLine(Resource(None, AwareStamp("T0"), Some(PatientRef(<<"p", "q">>)), <<>>, <<>>, <<>>),
             "compact"),
     ResLine(Resource(None, TsAbsent, Some(PatientRef(<<"p">>)), <<>>, <<>>, <<>>), "spaced"),
     ResLine(Resource(None, NaiveStamp("T1"), Some(PatientRef(<<"p">>)), <<>>, <<>>, <<>>),
             "compact"),
     BadLine(Resource(None, AwareStamp("T1"), Some(PatientRef(<<"p">>)), <<>>, <<>>, <<>>),
             "compact"),
     BlankLine}

\* line shapes of the second Observation file: the records that reference
\* Patient/p, serialized compactly or with a space
SecondFileShapes ==
    {l \in ObservationShapes : l.kind = "res" /\ l.res.lastUpdated.k = "str"
                               /\ l.res.subject = Some(PatientRef(<<"p">>))
                               /\ l.res.lastUpdated.s = <<"T1", "Z">>}
    \cup {l \in ObservationShapes : l.kind = "res" /\ l.fmt = "spaced"}

\* line shapes of the Patient file
PatientShapes ==
    {ResLine(Resource(None, AwareStamp("T1"), None, <<>>,
                      <<[given |-> <<<<"A", "b">>>>, family |-> <<"c">>]>>,
                      <<[system |-> Some(<<"s">>), value |-> Some(<<"v">>)]>>), "compact"),
     ResLine(Resource(None, AwareStamp("T0"), None, <<>>, <<>>, <<>>), "compact"),
     BadLine(EmptyResource, "compact"),
     BlankLine}

SeqsUpTo(S, n) == UNION {[1..m -> S] : m \in 0..n}

\* give the lines of a file their ids, counting on from offset
Number(lines, offset) ==
    [j \in 1..Len(lines) |->
        IF lines[j].kind = "blank" THEN lines[j]
        ELSE [lines[j] EXCEPT !.res.id = Some(IdOf(offset + j))]]

FileChoices(shapes, n, offset) ==
    {MissingFile} \cup {File(Number(ls, offset)) : ls \in SeqsUpTo(shapes, n)}

EmptyDisk == [f \in {} |-> <<>>]

\* the disk holding file f1 under name1 and file f2 under name2 (each may be missing)
DiskOf(name1, f1, name2, f2) ==
    [f \in (IF f1.exists THEN {name1} ELSE {}) \cup (IF f2.exists THEN {name2} ELSE {}) |->
        IF f = name1 THEN f1.lines ELSE f2.lines]

PatientDisks ==
    {DiskOf(FILE_MAPPINGS["Patient"][1], f1, FILE_MAPPINGS["Patient"][1], f1) :
        f1 \in FileChoices(PatientShapes, MaxLines, 0)}

ObservationDisks ==
    {DiskOf(FILE_MAPPINGS["Observation"][1], f1, FILE_MAPPINGS["Observation"][2], f2) :
        f1 \in FileChoices(ObservationShapes, MaxLines, 0),
        f2 \in {MissingFile}
               \cup {File(Number(<<l>>, MaxLines)) : l \in SecondFileShapes}}

Disks == PatientDisks \cup ObservationDisks

\* the record types that have a file on the disk
TypesOnDisk(dsk) ==
    {t \in KnownTypes : \E i \in 1..Len(FILE_MAPPINGS[t]) : FILE_MAPPINGS[t][i] \in DOMAIN dsk}

(***************************************************************************)
(* Bounded universes: requests.                                            *)
(***************************************************************************)
UnknownType == "Practitioner"

With(params, k, v) == [params EXCEPT ![k] = Some(v)]

\* the filtering parameters of a query
FilterParts ==
    {NoParams,
     With(NoParams, "_id", IdOf(1)),
     With(NoParams, "_id", <<>>),
     With(NoParams, "_id", <<"z">>),
     With(NoParams, "subject", <<"p">>),
     With(NoParams, "subject", PatientRef(<<"p">>)),
     With(NoParams, "patient", <<"p", "q">>),
     With(NoParams, "subject", <<>>),
     With(NoParams, "category", <<"lab">>),
     With(NoParams, "_since", <<"T1", "Z">>),
     With(NoParams, "_since", <<"junk">>),
     With(With(NoParams, "_since", <<"T1", "Z">>), "subject", <<"p">>),
     With(With(NoParams, "_since", <<"junk">>), "subject", <<"p">>),
     With(With(NoParams, "_since", <<"T1", "Z">>), "_id", IdOf(1))}

\* raw _count values: absent, 0, 1, not an integer, above the ceiling
CountParts ==
    {None, Some(<<"0">>), Some(<<"1">>), Some(<<"x">>), Some(<<"1", "0", "0", "1">>)}

\* _summary: absent or exactly "count"
SummaryParts == {None, Some(<<"count">>)}

QueryParams ==
    {[[f EXCEPT !["_count"] = c] EXCEPT !["_summary"] = s] :
        f \in FilterParts, c \in CountParts, s \in SummaryParts}
    \cup {With(f, "_summary", <<"true">>) : f \in FilterParts}
    \cup {With(f, "_format", <<"HTML">>) : f \in FilterParts}

\* the limit argument of a direct page call
PageCounts == {None} \cup {Some(n) : n \in 0..MaxLines}

Bases == {"http://localhost:8000"}

(***************************************************************************)
(* State.                                                                  *)
(*   BASE_URL         the base URL the process is configured with          *)
(*                    (FHIR_BASE_URL in its environment; never written)    *)
(*   disk             the data directory (never written)                   *)
(*   file_line_counts the LineCountIndex                                   *)
(*   resource_cache, bundle_cache   the two cache key spaces               *)
(*   started          whether lifespan's startup pass has run              *)
(*   call, resp       the last operation's input and outcome               *)
(*   resolved         history: the envelope each query (record type plus   *)
(*                    query parameters) was first answered with since the  *)
(*                    last clear; read by no operation                     *)
(*   probe            the arguments and the result of a function of the    *)
(*                    module applied on its own (predicate, validator)     *)
(*   inflight         the requests the event loop has accepted and whose   *)
(*                    handler it has not run yet (used where requests      *)
(*                    overlap; empty everywhere else)                      *)
(***************************************************************************)
NoProbe == [fn |-> "none"]

NoneInFlight == <<>>

\* the values of FHIR_BASE_URL: unset (the default) and a deployment's own
BaseUrls == {DefaultBaseUrl, "https://api.example.org/fhir"}

\* the state after import, for a data directory of disks and a base URL of urls
InitUnder(disks, urls) ==
    /\ BASE_URL \in urls
    /\ disk \in disks
    /\ file_line_counts = [f \in {} |-> 0]
    /\ resource_cache = EmptyCache
    /\ bundle_cache = EmptyCache
    /\ started = FALSE
    /\ call = NoCall
    /\ resp = NoResponse
    /\ resolved = EmptyCache
    /\ probe = NoProbe
    /\ inflight = NoneInFlight

InitWith(disks) == InitUnder(disks, BaseUrls)

\* lifespan's startup pass
Startup ==
    /\ ~started
    /\ call.op = "none"
    /\ started' = TRUE
    /\ file_line_counts' = lifespan(file_line_counts, disk)
    /\ UNCHANGED <<BASE_URL, disk, resource_cache, bundle_cache, call, resp, resolved, probe, inflight>>

\* the handler's reply r is returned and its effects on the shared state are kept
Served(request, r) ==
    /\ call' = request
    /\ resp' = r.resp
    /\ bundle_cache' = r.bcache
    /\ resource_cache' = r.rcache
    /\ file_line_counts' = r.flc
    /\ UNCHANGED <<BASE_URL, disk, started, probe, inflight>>

\* the history of first answers after the reply to a search
Noted(request, reply) ==
    IF reply.kind \in {"bundle", "html"}
       /\ BundleKey(request.rt, request.params) \notin DOMAIN resolved
        THEN cache_set(resolved, BundleKey(request.rt, request.params), reply.bundle)
    ELSE resolved

\* GET /{resource_type}
DoSearch(request) ==
    /\ Served(request, fhir_resource_search(request, bundle_cache, resource_cache,
                                            file_line_counts, disk))
    /\ resolved' = Noted(request, resp')

\* GET /{resource_type}/{resource_id}
DoRead(request) ==
    /\ Served(request, fhir_resource_read(request, bundle_cache, resource_cache,
                                          file_line_counts, disk))
    /\ UNCHANGED resolved

\* a variant of ClearCache that wipes the result-set cache only
ClearCache_bundles_only ==
    /\ bundle_cache' = EmptyCache
    /\ call' = Call("clear", "", NoParams, None, <<>>, None, "")
    /\ resp' = Plain("cleared", NoWork)
    /\ resolved' = EmptyCache
    /\ UNCHANGED <<BASE_URL, disk, file_line_counts, resource_cache, started, probe, inflight>>

\* a variant of ClearCache that wipes the LineCountIndex with the two caches
ClearCache_with_index ==
    /\ resource_cache' = EmptyCache
    /\ bundle_cache' = EmptyCache
    /\ file_line_counts' = [f \in {} |-> 0]
    /\ call' = Call("clear", "", NoParams, None, <<>>, None, "")
    /\ resp' = Plain("cleared", NoWork)
    /\ resolved' = EmptyCache
    /\ UNCHANGED <<BASE_URL, disk, started, probe, inflight>>

\* POST /cache/clear
ClearCache ==
    /\ resource_cache' = EmptyCache
    /\ bundle_cache' = EmptyCache
    /\ call' = Call("clear", "", NoParams, None, <<>>, None, "")
    /\ resp' = Plain("cleared", NoWork)
    /\ resolved' = EmptyCache
    /\ UNCHANGED <<BASE_URL, disk, file_line_counts, started, probe, inflight>>

\* the work of a direct store call
StoreWork(r) == [compiled |-> 1, opened |-> r.opened, assembled |-> FALSE, hit |-> FALSE]

\* r is what count_fhir_resources_optimized gave
Counting(rt, params, r) ==
    /\ call' = Call("count", rt, params, None, <<>>, None, "")
    /\ resp' = IF r.err THEN Plain("error", StoreWork(r))
               ELSE Response("count", NoBundle, EmptyResource, None, None, r.total, <<>>,
                             StoreWork(r))
    /\ file_line_counts' = r.flc
    /\ UNCHANGED <<BASE_URL, disk, resource_cache, bundle_cache, started, resolved, probe, inflight>>

\* RecordStore.count: the predicate compiled from params, counted by
\* count_fhir_resources_optimized
DoStoreCount(rt, params) ==
    Counting(rt, params,
             count_fhir_resources_optimized(
                 rt, Some(FHIRSearchParameters(params)),
                 create_search_filter(rt, FHIRSearchParameters(params)),
                 file_line_counts, disk))

\* r is what get_fhir_resources_page gave
Paging(rt, params, count, r) ==
    /\ call' = Call("page", rt, params, count, <<>>, None, "")
    /\ resp' = IF r.err THEN Plain("error", StoreWork(r))
               ELSE Response("page", NoBundle, EmptyResource, None, None, 0, r.page,
                             StoreWork(r))
    /\ resource_cache' = r.rcache
    /\ UNCHANGED <<BASE_URL, disk, file_line_counts, bundle_cache, started, resolved, probe, inflight>>

\* RecordStore.page: the predicate compiled from params, paged by
\* get_fhir_resources_page with the limit count
DoStorePage(rt, params, count) ==
    Paging(rt, params, count,
           get_fhir_resources_page(rt, create_search_filter(rt, FHIRSearchParameters(params)),
                                   count, resource_cache, disk))

(***************************************************************************)
(* SpecCall: a process that has just started (with or without the startup  *)
(* pass) serves one call, drawn from the wide universes above.             *)
(***************************************************************************)
\* the record type whose files the disk holds (Patient when it holds none)
FocusType(dsk) == IF "Observation" \in TypesOnDisk(dsk) THEN "Observation" ELSE "Patient"

\* the filter parameters a direct store call compiles its predicate from
StoreParams == FilterParts

\* what is asked of the unknown record type
UnknownParams == {NoParams, With(NoParams, "_summary", <<"count">>),
                  With(NoParams, "_id", IdOf(1))}

\* ids asked of a read: the first record, the first record of the second file, no record
ReadIds == {IdOf(1), IdOf(MaxLines + 1), <<"z">>}

\* validators a client may present on a read: none, or the one of some record
ReadHeaders == {None, Some(WeakHeader(ResourceTag(
                   Resource(Some(IdOf(1)), AwareStamp("T0"), None, <<>>, <<>>, <<>>))))}

\* the (record type, query parameters) pairs of the searches
SearchInputs(dsk) ==
    {<<FocusType(dsk), params>> : params \in QueryParams}
    \cup {<<UnknownType, params>> : params \in UnknownParams}

\* the (record type, filter parameters) pairs of the direct store calls
StoreInputs(dsk) ==
    {<<FocusType(dsk), params>> : params \in StoreParams}
    \cup {<<UnknownType, NoParams>>}

InitCall == InitWith(Disks)

SearchOnce ==
    /\ call.op = "none"
    /\ \E q \in SearchInputs(disk), base \in Bases :
           DoSearch(Call("search", q[1], q[2], None, <<>>, None, base))

ReadOnce ==
    /\ call.op = "none"
    /\ \E rt \in {FocusType(disk), UnknownType}, id \in ReadIds, inm \in ReadHeaders,
          base \in Bases :
           DoRead(Call("read", rt, NoParams, None, id, inm, base))

StoreCountOnce ==
    /\ call.op = "none"
    /\ \E q \in StoreInputs(disk) : DoStoreCount(q[1], q[2])

StorePageOnce ==
    /\ call.op = "none"
    /\ \E q \in StoreInputs(disk), count \in PageCounts : DoStorePage(q[1], q[2], count)

NextCall == Startup \/ SearchOnce \/ ReadOnce \/ StoreCountOnce \/ StorePageOnce

SpecCall == InitCall /\ [][NextCall]_vars

(***************************************************************************)
(* Spec: the running service.  After the optional startup pass it serves   *)
(* searches, reads and cache clears in any order, over a Patient file of   *)
(* up to MaxLines lines (records, unparseable lines, blank lines) and a    *)
(* small set of queries.                                                   *)
(***************************************************************************)
ServedShapes ==
    {ResLine(Resource(None, AwareStamp("T0"), None, <<>>, <<>>, <<>>), "compact"),
     BadLine(EmptyResource, "compact"),
     BlankLine}

ServedDisks ==
    {DiskOf(FILE_MAPPINGS["Patient"][1], f1, FILE_MAPPINGS["Patient"][1], f1) :
        f1 \in FileChoices(ServedShapes, MaxLines, 0)}

\* the queries served: full mode (no filter, exact id, HTML rendering) and count-only
ServedQueries ==
    {NoParams,
     With(NoParams, "_id", IdOf(1)),
     With(NoParams, "_format", <<"HTML">>),
     With(NoParams, "_summary", <<"count">>),
     With(With(NoParams, "_id", IdOf(1)), "_summary", <<"count">>)}

ServedSearches ==
    {<<"Patient", params>> : params \in ServedQueries} \cup {<<UnknownType, NoParams>>}

Init == InitWith(ServedDisks)

Lifespan == Startup

Search ==
    \E q \in ServedSearches, base \in Bases :
        DoSearch(Call("search", q[1], q[2], None, <<>>, None, base))

Read ==
    \E rt \in {"Patient", UnknownType}, id \in {IdOf(1), <<"z">>}, inm \in ReadHeaders,
       base \in Bases :
        DoRead(Call("read", rt, NoParams, None, id, inm, base))

Clear == ClearCache

Next == Lifespan \/ Search \/ Read \/ Clear

Spec == Init /\ [][Next]_vars

(***************************************************************************)
(* SpecLimit: limit resolution alone.  The query parser is handed every    *)
(* raw _count string over CountAlphabet up to MaxCountLen characters, or   *)
(* none, and the limit is resolved as fhir_search resolves it.             *)
(***************************************************************************)
MaxCountLen == 4

CountAlphabet == {"-", "+", "0", "1", "9", "x"}

RawCounts == {None} \cup {Some(s) : s \in SeqsUpTo(CountAlphabet, MaxCountLen)}

InitLimit == InitUnder({EmptyDisk}, {DefaultBaseUrl})

\* FHIRSearchParameters({'_count': raw}).get_count(default=100, max_limit=1000)
ResolveLimit ==
    /\ call.op = "none"
    /\ \E raw \in RawCounts :
           LET params == [NoParams EXCEPT !["_count"] = raw]
               sp == FHIRSearchParameters(params)
           IN /\ call' = Call("limit", "", params, sp.count, <<>>, None, "")
              /\ resp' = Response("limit", NoBundle, EmptyResource, None, None,
                                  get_count(sp), <<>>, NoWork)
    /\ UNCHANGED <<BASE_URL, disk, file_line_counts, resource_cache, bundle_cache, started, resolved,
                   probe, inflight>>

NextLimit == ResolveLimit

SpecLimit == InitLimit /\ [][NextLimit]_vars

(***************************************************************************)
(* SpecFilter: predicate compilation alone.  create_search_filter is       *)
(* handed every record type and a product of query parameters, and what it *)
(* returns is applied to one record the way read_ndjson_file applies it    *)
(* (with no predicate every record is kept).                               *)
(***************************************************************************)
FilterTypes == KnownTypes \cup {UnknownType}

\* raw parameter values: absent, the empty string, values that parse and values that do not
ProbeIds == {None, Some(<<>>), Some(IdOf(1))}

ProbeSinces == {None, Some(<<"T1", "Z">>), Some(<<"T1">>), Some(<<"junk">>)}

ProbeSubjects == {None, Some(<<>>), Some(<<"p">>), Some(PatientRef(<<"p">>)),
                  Some(<<"Patient", "/">>)}

ProbePatients == {None, Some(<<"p", "q">>)}

ProbeCategories == {None, Some(<<"lab">>)}

ProbeNames == {None, Some(<<"A">>)}

ProbeParams ==
    {[NoParams EXCEPT !["_id"] = i, !["_since"] = t, !["subject"] = u, !["patient"] = v,
                      !["category"] = c, !["name"] = n] :
        i \in ProbeIds, t \in ProbeSinces, u \in ProbeSubjects, v \in ProbePatients,
        c \in ProbeCategories, n \in ProbeNames}

\* meta.lastUpdated of a stored record: absent, the empty string, earlier than, equal to
\* and later than T1 with an offset, without an offset, not a timestamp, not a string
ProbeStamps == {TsAbsent, TsStr(<<>>), AwareStamp("T0"), AwareStamp("T1"), AwareStamp("T2"),
                NaiveStamp("T0"), TsStr(<<"junk">>), TsNum}

ProbeRefs == {None, Some(PatientRef(<<"p">>)), Some(PatientRef(<<"p", "q">>))}

ProbeRecords ==
    {Resource(Some(IdOf(1)), ts, ref, LabCategory,
              <<[given |-> <<<<"A", "b">>>>, family |-> <<"c">>]>>, <<>>) :
        ts \in ProbeStamps, ref \in ProbeRefs}
    \cup {Resource(None, TsAbsent, None, <<>>, <<>>, <<>>),
          Resource(Some(IdOf(2)), AwareStamp("T0"), Some(PatientRef(<<"p">>)), <<>>, <<>>, <<>>)}

InitFilter == InitUnder({EmptyDisk}, {DefaultBaseUrl})

\* filter_func is what create_search_filter returned
ApplyCompiled(rt, params, resource, filter_func) ==
    /\ probe' = [fn |-> "filter", rt |-> rt, params |-> params, resource |-> resource,
                 compiled |-> filter_func # None,
                 verdict |-> ApplyFilter(filter_func, resource)]
    /\ UNCHANGED <<BASE_URL, disk, file_line_counts, resource_cache, bundle_cache, started, call, resp,
                   resolved, inflight>>

\* search_filter = create_search_filter(resource_type, FHIRSearchParameters(params)), then
\* search_filter is None or search_filter(resource)
CompileAndApply ==
    /\ probe.fn = "none"
    /\ \E rt \in FilterTypes, params \in ProbeParams, resource \in ProbeRecords :
           ApplyCompiled(rt, params, resource,
                         create_search_filter(rt, FHIRSearchParameters(params)))

NextFilter == CompileAndApply

SpecFilter == InitFilter /\ [][NextFilter]_vars

(***************************************************************************)
(* SpecCond: conditional requests.  A client fetches (searches and reads   *)
(* with no If-None-Match header) and re-fetches, presenting the validator  *)
(* of the last response it was given, in the forms a client sends it.      *)
(***************************************************************************)
\* the header forms: "<etag>", <etag> alone, and a text that is not a validator
StrongHeader(tag) == Header(<<"'">>, tag, <<"'">>)

BareHeader(tag) == Header(<<>>, tag, <<>>)

OtherHeader(tag) == Header(<<"x", "'">>, tag, <<"'">>)

HeadersOf(tag) == {Some(WeakHeader(tag)), Some(StrongHeader(tag)), Some(BareHeader(tag)),
                   Some(OtherHeader(tag))}

\* the queries searched: full mode as JSON and as HTML, by id, and count-only
CondQueries ==
    {NoParams,
     With(NoParams, "_format", <<"HTML">>),
     With(NoParams, "_id", IdOf(1)),
     With(NoParams, "_summary", <<"count">>)}

CondIds == {IdOf(1), <<"z">>}

InitCond == InitWith(ServedDisks)

\* a request with the If-None-Match header inm (None: no header)
Request(inm) ==
    \/ \E params \in CondQueries, base \in Bases :
           DoSearch(Call("search", "Patient", params, None, <<>>, inm, base))
    \/ \E id \in CondIds, base \in Bases :
           DoRead(Call("read", "Patient", NoParams, None, id, inm, base))

Fetch == Request(None)

Refetch ==
    /\ resp.etag # None
    /\ \E inm \in HeadersOf(resp.etag[1]) : Request(inm)

NextCond == Fetch \/ Refetch

SpecCond == InitCond /\ [][NextCond]_vars

(***************************************************************************)
(* SpecHost: the service reached under two base URLs (scheme and host).    *)
(* Searches of the served queries arrive under either, and the caches are  *)
(* cleared, in any order.                                                  *)
(***************************************************************************)
Hosts == {"http://localhost:8000", "https://fhir.example.org"}

InitHost == InitWith(ServedDisks)

SearchFrom ==
    \E q \in ServedSearches, base \in Hosts :
        DoSearch(Call("search", q[1], q[2], None, <<>>, None, base))

NextHost == SearchFrom \/ ClearCache

SpecHost == InitHost /\ [][NextHost]_vars

(***************************************************************************)
(* SpecRace: overlapping requests.  The handlers are coroutines that never *)
(* await, so the event loop runs each of them whole, one at a time.        *)
(* Requests overlap in that several are accepted before any of them is     *)
(* handled: the event loop then runs their handlers in any order, with     *)
(* clear() and the startup pass in between.                                *)
(***************************************************************************)
Slots == {"first", "second"}

RaceDisks ==
    {EmptyDisk} \cup
    {DiskOf(FILE_MAPPINGS["Patient"][1], File(Number(ls, 0)),
            FILE_MAPPINGS["Patient"][1], File(Number(ls, 0))) :
        ls \in {<<ResLine(Resource(None, AwareStamp("T0"), None, <<>>, <<>>, <<>>), "compact"),
                  BlankLine>>,
                <<BadLine(EmptyResource, "compact"),
                  ResLine(Resource(None, AwareStamp("T0"), None, <<>>, <<>>, <<>>), "compact")>>}}

\* the requests that overlap: the same search under either base URL, a count-only
\* search, a read of the first and of the second line's id
RaceRequests ==
    {Call("search", "Patient", NoParams, None, <<>>, None, base) : base \in Hosts}
    \cup {Call("search", "Patient", With(NoParams, "_summary", <<"count">>), None, <<>>, None,
               "http://localhost:8000")}
    \cup {Call("read", "Patient", NoParams, None, id, None, "http://localhost:8000") :
             id \in {IdOf(1), IdOf(2)}}

InitRace == InitWith(RaceDisks)

\* a request is accepted: its handler is scheduled and has not run
Accept ==
    \E slot \in Slots \ DOMAIN inflight, request \in RaceRequests :
        /\ inflight' = [t \in (DOMAIN inflight) \cup {slot} |->
                           IF t = slot THEN request ELSE inflight[t]]
        /\ UNCHANGED <<BASE_URL, disk, file_line_counts, resource_cache, bundle_cache, started,
                       call, resp, resolved, probe>>

\* the reply r of the handler is returned, its effects on the shared state are kept
\* and the request is no longer pending
Handled(slot, request, r) ==
    /\ call' = request
    /\ resp' = r.resp
    /\ bundle_cache' = r.bcache
    /\ resource_cache' = r.rcache
    /\ file_line_counts' = r.flc
    /\ resolved' = IF request.op = "search" THEN Noted(request, r.resp) ELSE resolved
    /\ inflight' = [t \in (DOMAIN inflight) \ {slot} |-> inflight[t]]
    /\ UNCHANGED <<BASE_URL, disk, started, probe>>

\* the event loop runs the handler of a pending request to its end
Run ==
    \E slot \in DOMAIN inflight :
        Handled(slot, inflight[slot],
                IF inflight[slot].op = "search"
                THEN fhir_resource_search(inflight[slot], bundle_cache, resource_cache,
                                          file_line_counts, disk)
                ELSE fhir_resource_read(inflight[slot], bundle_cache, resource_cache,
                                        file_line_counts, disk))

NextRace == Startup \/ Accept \/ Run \/ ClearCache

SpecRace == InitRace /\ [][NextRace]_vars

(***************************************************************************)
(* generate_etag(data) on JSON values as Python holds them.  A dict is the *)
(* sequence of its (key, value) items in insertion order, keys distinct; a *)
(* value is a string or a dict.  json.dumps(data, sort_keys=True,          *)
(* separators=(',', ':')) writes the items in key order, at every depth,   *)
(* with no whitespace.  hashlib.md5(...).hexdigest() is modelled as one    *)
(* digest per byte string: the digest of a text is the text, tagged.       *)
(***************************************************************************)
Str(v) == [k |-> "str", v |-> v, items |-> <<>>]

Dict(items) == [k |-> "dict", v |-> "", items |-> items]

Item(key, value) == [key |-> key, value |-> value]

\* the order of the keys as strings
KeyOrder == <<"a", "b", "c">>

KeyRank(key) == CHOOSE i \in 1..Len(KeyOrder) : KeyOrder[i] = key

\* sorted(items) by key
RECURSIVE InsertItem(_, _)
InsertItem(item, sorted) ==
    IF sorted = <<>> THEN <<item>>
    ELSE IF KeyRank(item.key) <= KeyRank(Head(sorted).key) THEN <<item>> \o sorted
    ELSE <<Head(sorted)>> \o InsertItem(item, Tail(sorted))

RECURSIVE SortItems(_)
SortItems(items) ==
    IF items = <<>> THEN <<>> ELSE InsertItem(Head(items), SortItems(Tail(items)))

\* a variant of json_dumps that writes the items in insertion order (sort_keys left out)
RECURSIVE json_dumps_unsorted(_)
RECURSIVE DumpItemsUnsorted(_)
DumpItemsUnsorted(items) ==
    IF items = <<>> THEN <<>>
    ELSE <<"\"", Head(items).key, "\"", ":">> \o json_dumps_unsorted(Head(items).value)
         \o (IF Tail(items) = <<>> THEN <<>> ELSE <<",">>)
         \o DumpItemsUnsorted(Tail(items))

json_dumps_unsorted(data) ==
    IF data.k = "str" THEN <<"\"", data.v, "\"">>
    ELSE <<"{">> \o DumpItemsUnsorted(data.items) \o <<"}">>

\* json.dumps(data, sort_keys=True, separators=(',', ':'))
RECURSIVE json_dumps(_)
RECURSIVE DumpItems(_)
DumpItems(items) ==
    IF items = <<>> THEN <<>>
    ELSE <<"\"", Head(items).key, "\"", ":">> \o json_dumps(Head(items).value)
         \o (IF Tail(items) = <<>> THEN <<>> ELSE <<",">>)
         \o DumpItems(Tail(items))

json_dumps(data) ==
    IF data.k = "str" THEN <<"\"", data.v, "\"">>
    ELSE <<"{">> \o DumpItems(SortItems(data.items)) \o <<"}">>

\* str(data) of a value that is not a dict
str(data) == <<data.v>>

\* hashlib.md5(content.encode('utf-8')).hexdigest()
md5_hexdigest(content) == [md5 |-> content]

generate_etag(data) ==
    IF data.k = "dict" THEN md5_hexdigest(json_dumps(data))
    ELSE md5_hexdigest(str(data))

(***************************************************************************)
(* SpecEtag: generate_etag alone, handed every value of a bounded set:     *)
(* dicts over the keys a, b and c in every insertion order, the value      *)
(* under c being a string or a dict over a and b.                          *)
(***************************************************************************)
Atoms == {Str("u"), Str("v")}

\* the dicts with exactly the keys of a set, in every insertion order
Orders(keys) ==
    {order \in [1..Cardinality(keys) -> keys] :
        \A i, j \in 1..Cardinality(keys) : order[i] = order[j] => i = j}

DictsOver(keys, values(_)) ==
    {[i \in 1..Len(order) |-> Item(order[i], choice[order[i]])] :
        order \in Orders(keys),
        choice \in {c \in [keys -> UNION {values(key) : key \in keys}] :
                       \A key \in keys : c[key] \in values(key)}}

InnerValues(key) == Atoms

InnerDicts == UNION {{Dict(items) : items \in DictsOver(keys, InnerValues)} :
                        keys \in SUBSET {"a", "b"}}

OuterValues(key) == IF key = "c" THEN Atoms \cup InnerDicts ELSE Atoms

EtagValues ==
    Atoms \cup UNION {{Dict(items) : items \in DictsOver(keys, OuterValues)} :
                         keys \in SUBSET {"a", "b", "c"}}

InitEtag == InitUnder({EmptyDisk}, {DefaultBaseUrl})

HashValue ==
    /\ probe.fn = "none"
    /\ \E data \in EtagValues :
           probe' = [fn |-> "etag", data |-> data, etag |-> generate_etag(data)]
    /\ UNCHANGED <<BASE_URL, disk, file_line_counts, resource_cache, bundle_cache, started, call, resp,
                   resolved, inflight>>

NextEtag == HashValue

SpecEtag == InitEtag /\ [][NextEtag]_vars

(***************************************************************************)
(* Reference notions the properties are stated against.                    *)
(***************************************************************************)
\* the parseable records of a file, in line order
RecordsOf(file) ==
    LET good == SelectSeq(file.lines, LAMBDA l : l.kind = "res")
    IN [i \in 1..Len(good) |-> good[i].res]

\* the parseable records of a record type: files in configured order
RECURSIVE Concat(_, _)
Concat(files, dsk) ==
    IF files = <<>> THEN <<>>
    ELSE RecordsOf(FileAt(dsk, Head(files)))
         \o Concat(Tail(files), dsk)

Corpus(dsk, rt) == IF rt \in KnownTypes THEN Concat(FILE_MAPPINGS[rt], dsk) ELSE <<>>

\* a predicate verdict on a record is defined (the predicate does not raise)
Defined(rt, params, dsk) ==
    LET f == create_search_filter(rt, FHIRSearchParameters(params))
    IN \A i \in 1..Len(Corpus(dsk, rt)) : ApplyFilter(f, Corpus(dsk, rt)[i]) # "raise"

\* the parseable records matching the predicate compiled from params, in order
Matching(dsk, rt, params) ==
    LET f == create_search_filter(rt, FHIRSearchParameters(params))
    IN SelectSeq(Corpus(dsk, rt), LAMBDA r : ApplyFilter(f, r) = "true")

\* the call is a search answered with an envelope (a dict or its HTML rendering)
SearchAnswered == call.op = "search" /\ resp.kind \in {"bundle", "html"}

CountOnly(params) == params["_summary"] = Some(<<"count">>)

(***************************************************************************)
(* C1: for every known record type, predicate and limit L >= 0 (0          *)
(* included) page returns at most L records; a request whose limit         *)
(* resolves to 0 gets an empty page.                                       *)
(***************************************************************************)
C1_PageWithinLimit ==
    /\ (call.op = "page" /\ resp.kind = "page" /\ call.count # None)
           => Len(resp.page) <= call.count[1]
    /\ (SearchAnswered /\ ~CountOnly(call.params))
           => Len(resp.bundle.entry) <= get_count(FHIRSearchParameters(call.params))

\* the disk with every line that fails to parse removed
Clean(dsk) == [f \in DOMAIN dsk |-> SelectSeq(dsk[f], LAMBDA l : l.kind # "bad")]

(***************************************************************************)
(* C2: a stored line that fails to parse is left out of both the count and *)
(* the page, for every predicate including none: the count and the page    *)
(* are those of the same files without the unparseable lines, the count is *)
(* the number of parseable records matching the predicate (stated here for *)
(* the predicates not counted by the text pre-filter), and page (with no   *)
(* limit cutting it) returns exactly those records in file order.          *)
(***************************************************************************)
C2_MalformedLinesLeftOut ==
    /\ (call.op = "count" /\ resp.kind = "count")
           => LET sp == FHIRSearchParameters(call.params)
                  f == create_search_filter(call.rt, sp)
              IN /\ resp.total = count_fhir_resources_optimized(
                                     call.rt, Some(sp), f, EmptyDisk, Clean(disk)).total
                 /\ CountStrategy(Some(sp), f) # "text"
                        => resp.total = Len(Matching(disk, call.rt, call.params))
    /\ (call.op = "page" /\ resp.kind = "page" /\ call.count = None)
           => resp.page = Matching(disk, call.rt, call.params)
    /\ (SearchAnswered /\ ~CountOnly(call.params))
           => resp.bundle.total = Len(Matching(disk, call.rt, call.params))

\* params with key k removed
Without(params, k) == [params EXCEPT ![k] = None]

\* the LineCountIndex a served call of SpecCall found: built by the startup pass
\* or still empty (the index only grows within the call)
PreIndex == IF started THEN lifespan(EmptyDisk, disk) ELSE EmptyDisk

\* the reply the same fresh process gives to a search request
Outcome(request) ==
    fhir_resource_search(request, EmptyCache, EmptyCache, PreIndex, disk).resp

\* the total count(type, predicate) answers for the predicate compiled from params
StoreCount(rt, params) ==
    count_fhir_resources_optimized(rt, Some(FHIRSearchParameters(params)),
                                   create_search_filter(rt, FHIRSearchParameters(params)),
                                   PreIndex, disk)

\* the other reply is of the same kind and carries the same total as the one given
SameTotal(other) == other.kind = resp.kind /\ other.bundle.total = resp.bundle.total

\* the records of an envelope's page
PageOf(bundle) == [i \in 1..Len(bundle.entry) |-> bundle.entry[i].resource]

\* the other reply is the same outcome: kind, total and page
SameOutcome(other) ==
    /\ SameTotal(other)
    /\ PageOf(resp.bundle) = PageOf(other.bundle)

\* the page returned holds no more records than the count c
WithinCount(c) == ~c.err => Len(resp.page) <= c.total

(***************************************************************************)
(* C5: for a fixed record type and fixed filter parameters the envelope    *)
(* total is the same for every value of the limit (absent, 0, 1, above the *)
(* ceiling) and equals the number of all matching records, not the page    *)
(* length.                                                                 *)
(***************************************************************************)
C5_TotalIndependentOfLimit ==
    SearchAnswered =>
        /\ \A c \in CountParts : SameTotal(Outcome([call EXCEPT !.params["_count"] = c]))
        /\ resp.bundle.total = Len(Matching(disk, call.rt, call.params))

\* the half of C5 that holds: the total does not depend on the limit
C5_TotalSameAtEveryLimit ==
    SearchAnswered =>
        \A c \in CountParts : SameTotal(Outcome([call EXCEPT !.params["_count"] = c]))

(***************************************************************************)
(* C6: for every record type, predicate and limit, the number of records   *)
(* page returns never exceeds count(type, predicate), whichever counting   *)
(* strategy (line-count index, text pre-filter, full parse) counts it.     *)
(***************************************************************************)
C6_PageWithinCount ==
    (call.op = "page" /\ resp.kind = "page") => WithinCount(StoreCount(call.rt, call.params))

\* C6 holds for the predicates counted by the index or by parsing
C6_PageWithinParsedCount ==
    (/\ call.op = "page" /\ resp.kind = "page"
     /\ CountStrategy(Some(FHIRSearchParameters(call.params)),
                      create_search_filter(call.rt, FHIRSearchParameters(call.params)))
            # "text")
        => WithinCount(StoreCount(call.rt, call.params))

(***************************************************************************)
(* C7: for every id value supplied as the exact-id parameter _id, record   *)
(* ids being unique within the type, the page selected has length 0 or 1   *)
(* at every limit.                                                         *)
(***************************************************************************)
C7_ExactIdAtMostOne ==
    /\ (call.op = "page" /\ resp.kind = "page" /\ HasKey(call.params, "_id"))
           => Len(resp.page) <= 1
    /\ (SearchAnswered /\ HasKey(call.params, "_id"))
           => Len(resp.bundle.entry) <= 1

\* C7 holds for every id value that is not the empty string
C7_NonEmptyIdAtMostOne ==
    /\ (call.op = "page" /\ resp.kind = "page" /\ TruthyStr(call.params["_id"]))
           => Len(resp.page) <= 1
    /\ (SearchAnswered /\ TruthyStr(call.params["_id"]))
           => Len(resp.bundle.entry) <= 1

\* a decimal integer literal: an optional sign followed by one or more digits
Digits == {"0", "1", "2", "3", "4", "5", "6", "7", "8", "9"}

IsIntegerText(s) ==
    LET body == IF s # <<>> /\ s[1] \in {"-", "+"} THEN Tail(s) ELSE s
    IN body # <<>> /\ \A i \in 1..Len(body) : body[i] \in Digits

RECURSIVE Pow10(_)
Pow10(n) == IF n = 0 THEN 1 ELSE 10 * Pow10(n - 1)

RECURSIVE PlaceSum(_, _)
PlaceSum(body, i) ==
    IF i > Len(body) THEN 0
    ELSE DigitVal(body[i]) * Pow10(Len(body) - i) + PlaceSum(body, i + 1)

\* the integer an integer literal denotes
IntegerOf(s) ==
    IF s[1] = "-" THEN 0 - PlaceSum(Tail(s), 1)
    ELSE IF s[1] = "+" THEN PlaceSum(Tail(s), 1)
    ELSE PlaceSum(s, 1)

(***************************************************************************)
(* C8: limit resolution.  The parser maps an absent or non-integer _count  *)
(* to absent, a negative integer to 0 and any other integer to itself;     *)
(* resolving with default 100 and ceiling 1000 gives 100 for absent and    *)
(* min(parsed, 1000) otherwise.  So the resolved limit is in 0..1000, and  *)
(* an explicit 0 resolves to 0 while an absent limit resolves to 100.      *)
(***************************************************************************)
C8_LimitResolution ==
    call.op = "limit" =>
        LET raw == call.params["_count"]
            parsed == call.count
            limit == resp.total
        IN /\ (raw = None \/ ~IsIntegerText(raw[1])) => parsed = None
           /\ (raw # None /\ IsIntegerText(raw[1]) /\ IntegerOf(raw[1]) < 0)
                  => parsed = Some(0)
           /\ (raw # None /\ IsIntegerText(raw[1]) /\ IntegerOf(raw[1]) >= 0)
                  => parsed = Some(IntegerOf(raw[1]))
           /\ parsed = None => limit = 100
           /\ parsed # None => limit = Min(parsed[1], 1000)
           /\ limit \in 0..1000
           /\ raw = Some(<<"0">>) => limit = 0

\* a negative _count has been resolved (to 0)
C8_Witness ==
    /\ call.op = "limit"
    /\ call.params["_count"] = Some(<<"-", "1", "9">>)
    /\ call.count = Some(0)
    /\ resp.total = 0

\* an ISO-8601 timestamp: a date-time body, alone or with the offset Z or +00:00
IsIsoTimestamp(s) ==
    \E b \in {"T0", "T1", "T2", "T3"} : s \in {<<b>>, <<b, "Z">>, <<b, "+00:00">>}

\* the request carries parameter k with a malformed value
Malformed(params, k) ==
    /\ params[k] # None
    /\ IF k = "_count" THEN ~IsIntegerText(params[k][1]) ELSE ~IsIsoTimestamp(params[k][1])

(***************************************************************************)
(* C9: malformed input is never an error.  A request whose _count is not   *)
(* an integer, or whose _since is not an ISO-8601 timestamp, resolves as   *)
(* the same request without that parameter does: the same kind of outcome  *)
(* (so the parameter brings no error), the same total and the same page.   *)
(***************************************************************************)
C9_MalformedInputAsAbsent ==
    \A k \in {"_count", "_since"} :
        (call.op = "search" /\ Malformed(call.params, k)) =>
            SameOutcome(Outcome([call EXCEPT !.params = Without(call.params, k)]))

\* a search with a non-integer _count answered with the default page of two records
C9_Witness ==
    /\ call.op = "search"
    /\ Malformed(call.params, "_count")
    /\ resp.kind = "bundle"
    /\ Len(resp.bundle.entry) = 2

(***************************************************************************)
(* C10: when _summary is exactly "count" the response is an envelope with  *)
(* an empty page and total equal to the count of all matching records,     *)
(* whatever the limit and the other parameters, and the bundle assembler   *)
(* is not invoked; when _summary is absent or has any other value the      *)
(* request is resolved in full mode (counted, paged and assembled).        *)
(***************************************************************************)
C10_CountOnlyMode ==
    (call.op = "search" /\ call.rt \in KnownTypes) =>
        IF CountOnly(call.params)
            THEN /\ resp.kind = "bundle"
                 /\ resp.bundle.entry = <<>>
                 /\ resp.bundle.total = Len(Matching(disk, call.rt, call.params))
                 /\ ~resp.work.assembled
            ELSE resp.kind \in {"bundle", "html"} => resp.work.assembled

\* the part of C10 that holds: a count-only answer has no page and is not assembled
C10_CountOnlyShape ==
    (call.op = "search" /\ call.rt \in KnownTypes /\ resp.kind # "error") =>
        IF CountOnly(call.params)
            THEN /\ resp.kind = "bundle"
                 /\ resp.bundle.entry = <<>>
                 /\ ~resp.work.assembled
            ELSE resp.work.assembled

\* some parseable record of the type carries the id
HasRecord(dsk, rt, id) ==
    \E i \in 1..Len(Corpus(dsk, rt)) : Corpus(dsk, rt)[i].id = Some(id)

\* the search's filter yields zero matching records
EmptyResultSet == Matching(disk, call.rt, call.params) = <<>>

(***************************************************************************)
(* C4: the outcome is not-found in each of these cases and only in them:   *)
(* the record type is unknown; a read by type and id finds no record; a    *)
(* search's filter yields zero matching records.  In all other cases the   *)
(* outcome is a record, an envelope or not-modified.                       *)
(***************************************************************************)
C4_NotFoundCases ==
    call.op \in {"search", "read"} =>
        LET expected == \/ call.rt \notin KnownTypes
                        \/ call.op = "read" /\ ~HasRecord(disk, call.rt, call.id)
                        \/ call.op = "search" /\ EmptyResultSet
        IN IF expected THEN resp.kind = "not_found"
           ELSE resp.kind \in {"resource", "bundle", "html", "not_modified"}

\* what the handlers do: the outcome is not-found exactly when the record type is
\* unknown or a read by type and id finds no record
C4_NotFoundIffTypeOrId ==
    call.op \in {"search", "read"} =>
        (resp.kind = "not_found" <=>
            \/ call.rt \notin KnownTypes
            \/ call.op = "read" /\ ~HasRecord(disk, call.rt, call.id))

\* the step serves a search of a known record type; key is its query
ServesSearch == call'.op = "search" /\ call'.rt \in KnownTypes /\ vars' # vars

\* the served search is answered from the first resolution: the same envelope, no
\* predicate compiled, no file opened
AnsweredFromFirst ==
    LET key == BundleKey(call'.rt, call'.params)
    IN /\ resp'.kind \in {"bundle", "html"}
       /\ resp'.bundle = resolved[key]
       /\ resp'.work.compiled = 0
       /\ resp'.work.opened = 0

\* the served search is resolved anew: the predicate is compiled and the existing
\* files of the type are scanned (a count-only query may be counted from the
\* line-count index instead)
ResolvedAnew ==
    /\ resp'.work.compiled = 1
    /\ ~resp'.work.hit
    /\ (call'.rt \in TypesOnDisk(disk) /\ ~CountOnly(call'.params))
           => resp'.work.opened >= 1

(***************************************************************************)
(* C3: for every query (record type plus query parameters, whatever its    *)
(* response-shape directive), once it has been resolved a further request  *)
(* with the same record type and parameters, with no clear() in between,   *)
(* returns an envelope identical to the first and performs no predicate    *)
(* compilation and no scan of the backing files; after clear() the next    *)
(* such request scans the backing files again.                             *)
(***************************************************************************)
C3_RepeatedQueryFromCache ==
    [][ServesSearch =>
           IF BundleKey(call'.rt, call'.params) \in DOMAIN resolved
               THEN AnsweredFromFirst
           ELSE ResolvedAnew]_vars

(***************************************************************************)
(* C3 as the code has it: the above holds for every full-mode query (any   *)
(* _summary other than "count"); a count-only query is never answered from *)
(* the result-set cache: every request compiles its predicate and counts   *)
(* again.                                                                  *)
(***************************************************************************)
C3_FullModeQueryFromCache ==
    [][ServesSearch =>
           IF CountOnly(call'.params)
               THEN resp'.work.compiled = 1 /\ ~resp'.work.hit
           ELSE IF BundleKey(call'.rt, call'.params) \in DOMAIN resolved
               THEN AnsweredFromFirst
           ELSE ResolvedAnew]_vars

\* a full-mode query answered a second time, from the cache, with its page
C3_Witness ==
    /\ call.op = "search"
    /\ ~CountOnly(call.params)
    /\ resp.kind = "bundle"
    /\ resp.work.hit
    /\ resp.work.compiled = 0
    /\ resp.bundle.entry # <<>>
    /\ resp.bundle = resolved[BundleKey(call.rt, call.params)]

(***************************************************************************)
(* Reference notions for the predicate's clauses.                          *)
(***************************************************************************)
\* the instant a timestamp names (its offset, if any, is UTC)
Instant(s) == CHOOSE n \in 0..3 : s[1] = <<"T0", "T1", "T2", "T3">>[n + 1]

\* the query's since value was supplied and is a timestamp
SinceSet(params) == params["_since"] # None /\ IsIsoTimestamp(params["_since"][1])

\* the record's metadata timestamp parses
Stamped(resource) ==
    resource.lastUpdated.k = "str" /\ IsIsoTimestamp(resource.lastUpdated.s)

\* the verdict on the probed record of the predicate compiled from other parameters
VerdictUnder(params) ==
    ApplyFilter(create_search_filter(probe.rt, FHIRSearchParameters(params)), probe.resource)

(***************************************************************************)
(* C13: with since set and no id, the predicate rejects every record whose *)
(* metadata timestamp parses and is earlier than since; a record whose     *)
(* timestamp parses and is not earlier, or is missing or unparseable, is   *)
(* not rejected by this clause: its verdict is the one the same query      *)
(* without since gives.                                                    *)
(***************************************************************************)
C13_SinceClause ==
    (probe.fn = "filter" /\ probe.params["_id"] = None /\ SinceSet(probe.params)) =>
        IF Stamped(probe.resource)
           /\ Instant(probe.resource.lastUpdated.s) < Instant(probe.params["_since"][1])
            THEN probe.verdict = "false"
        ELSE probe.verdict = VerdictUnder(Without(probe.params, "_since"))

\* the timestamp is a string, and if it parses it has an offset exactly when s has one
Comparable(ts, s) ==
    /\ ts.k # "num"
    /\ (ts.k = "str" /\ IsIsoTimestamp(ts.s)) => (Len(ts.s) = Len(s))

\* C13 holds where the record's timestamp can be compared with since
C13_SinceClauseComparable ==
    (/\ probe.fn = "filter" /\ probe.params["_id"] = None /\ SinceSet(probe.params)
     /\ Comparable(probe.resource.lastUpdated, probe.params["_since"][1])) =>
        IF Stamped(probe.resource)
           /\ Instant(probe.resource.lastUpdated.s) < Instant(probe.params["_since"][1])
            THEN probe.verdict = "false"
        ELSE probe.verdict = VerdictUnder(Without(probe.params, "_since"))

\* the record types that carry a subject reference
SubjectTypes == {"Observation", "Encounter", "Condition", "Procedure", "MedicationRequest",
                 "MedicationAdministration", "MedicationDispense", "MedicationStatement",
                 "Specimen"}

\* the part of s after its last "/" (s itself when it has none)
TrailingSegment(s) ==
    LET slashes == {i \in 1..Len(s) : s[i] = "/"}
    IN IF slashes = {} THEN s
       ELSE SubSeq(s, (CHOOSE i \in slashes : \A j \in slashes : j <= i) + 1, Len(s))

\* ref ends with "/" followed by segment
EndsWithSegment(ref, segment) == \E head \in {SubSeq(ref, 1, n) : n \in 0..Len(ref)} :
                                     ref = head \o <<"/">> \o segment

\* the record's subject reference, the empty string when it has none
ReferenceOf(resource) == IF resource.subject = None THEN <<>> ELSE resource.subject[1]

\* k is the only parameter of the query
OnlyParam(params, k) == params[k] # None /\ \A j \in ParamKeys \ {k} : params[j] = None

(***************************************************************************)
(* C14: the subject/patient clause matches a record iff the record's       *)
(* subject reference ends with "/" followed by the trailing segment (the   *)
(* part after the last "/") of the query value.                            *)
(***************************************************************************)
C14_SubjectClause ==
    \A k \in {"subject", "patient"} :
        (probe.fn = "filter" /\ probe.rt \in SubjectTypes /\ OnlyParam(probe.params, k)) =>
            probe.verdict = Verdict(EndsWithSegment(ReferenceOf(probe.resource),
                                                    TrailingSegment(probe.params[k][1])))

\* C14 holds for every query value that is not the empty string
C14_NonEmptySubjectClause ==
    \A k \in {"subject", "patient"} :
        (/\ probe.fn = "filter" /\ probe.rt \in SubjectTypes /\ OnlyParam(probe.params, k)
         /\ probe.params[k][1] # <<>>) =>
            probe.verdict = Verdict(EndsWithSegment(ReferenceOf(probe.resource),
                                                    TrailingSegment(probe.params[k][1])))

\* the query value of the subject clause: subject, or patient when subject is absent or empty
SubjectValue(params) ==
    IF params["subject"] # None /\ params["subject"][1] # <<>> THEN params["subject"]
    ELSE params["patient"]

\* one generic subject clause: a record passes when no value is given, and otherwise
\* when its reference ends with "/" and the value's trailing segment
GenericSubjectClause(resource, params) ==
    \/ SubjectValue(params) = None
    \/ SubjectValue(params)[1] = <<>>
    \/ EndsWithSegment(ReferenceOf(resource), TrailingSegment(SubjectValue(params)[1]))

\* the query has subject or patient (or both) and no other parameter
SubjectQuery(params) ==
    /\ params["subject"] # None \/ params["patient"] # None
    /\ \A j \in ParamKeys \ {"subject", "patient"} : params[j] = None

(***************************************************************************)
(* C15: uniform subject clause.  For every record type that carries a      *)
(* subject reference, every record and every query value supplied under    *)
(* subject or patient, the type's predicate is compiled and gives the      *)
(* verdict of the one generic subject clause: no type deviates.            *)
(***************************************************************************)
C15_UniformSubjectClause ==
    (probe.fn = "filter" /\ probe.rt \in SubjectTypes /\ SubjectQuery(probe.params)) =>
        /\ probe.compiled
        /\ probe.verdict = Verdict(GenericSubjectClause(probe.resource, probe.params))

\* a Specimen rejected by a value supplied under the name patient
C15_Witness ==
    /\ probe.fn = "filter"
    /\ probe.rt = "Specimen"
    /\ OnlyParam(probe.params, "patient")
    /\ probe.resource.subject = Some(PatientRef(<<"p">>))
    /\ probe.verdict = "false"

(***************************************************************************)
(* C16: exact-id precedence.  When the query carries an id the predicate's *)
(* verdict equals (record.id == query.id) for every record, whatever since *)
(* value or type-specific parameters are also present.                     *)
(***************************************************************************)
C16_ExactIdPrecedence ==
    (probe.fn = "filter" /\ probe.params["_id"] # None) =>
        probe.verdict = Verdict(probe.resource.id = probe.params["_id"])

\* C16 holds for every id that is not the empty string
C16_NonEmptyIdPrecedence ==
    (probe.fn = "filter" /\ probe.params["_id"] # None /\ probe.params["_id"][1] # <<>>) =>
        probe.verdict = Verdict(probe.resource.id = probe.params["_id"])

\* the type-specific parameters recognised for a record type
Recognised(rt) ==
    IF rt = "Patient" THEN {"name", "identifier"}
    ELSE IF rt = "Observation" THEN {"subject", "patient", "category"}
    ELSE IF rt \in SubjectTypes THEN {"subject", "patient"}
    ELSE {}

(***************************************************************************)
(* C17: create_search_filter returns a predicate iff at least one clause   *)
(* is applicable: the id is set, or since was supplied and parsed, or a    *)
(* type-specific parameter recognised for the record type is present.      *)
(***************************************************************************)
C17_PredicateIffClause ==
    probe.fn = "filter" =>
        (probe.compiled <=>
            \/ probe.params["_id"] # None
            \/ SinceSet(probe.params)
            \/ \E k \in Recognised(probe.rt) : probe.params[k] # None)

\* C17 holds when an id that is the empty string counts as not set
C17_PredicateIffClauseNonEmptyId ==
    probe.fn = "filter" =>
        (probe.compiled <=>
            \/ (probe.params["_id"] # None /\ probe.params["_id"][1] # <<>>)
            \/ SinceSet(probe.params)
            \/ \E k \in Recognised(probe.rt) : probe.params[k] # None)

\* the call counts: RecordStore.count, or a count-only search of a known record type
Counts ==
    \/ call.op = "count" /\ call.rt \in KnownTypes
    \/ call.op = "search" /\ call.rt \in KnownTypes /\ CountOnly(call.params)

\* the value a parameter carries, when it carries one that is not the empty string
Given(params, k) == params[k] # None /\ params[k][1] # <<>>

\* the strategy the shape of the predicate calls for: none, a single subject/patient
\* clause, anything else
StrategyByShape(rt, params) ==
    LET others == Given(params, "_id") \/ SinceSet(params)
                  \/ \E k \in Recognised(rt) \ {"subject", "patient"} : params[k] # None
        subject == rt \in SubjectTypes /\ SubjectValue(params) # None
                   /\ SubjectValue(params)[1] # <<>>
    IN IF create_search_filter(rt, FHIRSearchParameters(params)) = None THEN "index"
       ELSE IF subject /\ ~others THEN "text"
       ELSE "parse"

(***************************************************************************)
(* C19: count(type, predicate) picks its strategy by the predicate's shape *)
(* only: no predicate uses the line-count index; a predicate made of a     *)
(* single subject/patient clause is counted by the text pre-filter,        *)
(* whichever non-filter parameters (_summary, _count, _format) accompany   *)
(* it; a predicate with another clause is counted by full parse.           *)
(***************************************************************************)
C19_StrategyByShape ==
    Counts =>
        CountStrategy(Some(FHIRSearchParameters(call.params)),
                      create_search_filter(call.rt, FHIRSearchParameters(call.params)))
            = StrategyByShape(call.rt, call.params)

\* C19 holds for the queries that carry one parameter at most
C19_StrategyOfSingleParameter ==
    (Counts /\ NumParams(call.params) <= 1) =>
        CountStrategy(Some(FHIRSearchParameters(call.params)),
                      create_search_filter(call.rt, FHIRSearchParameters(call.params)))
            = StrategyByShape(call.rt, call.params)

\* the number of non-blank lines of a file, zero when the file does not exist
LineCount(dsk, filename) ==
    IF filename \in DOMAIN dsk
        THEN Cardinality({i \in 1..Len(dsk[filename]) : dsk[filename][i].kind # "blank"})
    ELSE 0

RECURSIVE SumLineCounts(_, _)
SumLineCounts(files, dsk) ==
    IF files = <<>> THEN 0
    ELSE LineCount(dsk, Head(files)) + SumLineCounts(Tail(files), dsk)

\* the configured files of a record type that exist
StoredFiles(rt, dsk) ==
    {FILE_MAPPINGS[rt][i] : i \in 1..Len(FILE_MAPPINGS[rt])} \cap DOMAIN dsk

\* the total a counting call answered
AnsweredTotal == IF call.op = "count" THEN resp.total ELSE resp.bundle.total

(***************************************************************************)
(* C20: with no predicate, count(type) equals the sum over the type's      *)
(* configured files of the file's non-blank line count, taken from the     *)
(* LineCountIndex; an entry missing from the index is computed and stored  *)
(* on that miss; a configured file that does not exist contributes zero    *)
(* and is not an error; once the index holds all the type's files, an      *)
(* unfiltered count reads no file.                                         *)
(***************************************************************************)
C20_UnfilteredCountFromIndex ==
    (Counts /\ create_search_filter(call.rt, FHIRSearchParameters(call.params)) = None) =>
        /\ resp.kind \in {"count", "bundle"}
        /\ AnsweredTotal = SumLineCounts(FILE_MAPPINGS[call.rt], disk)
        /\ \A f \in StoredFiles(call.rt, disk) :
               f \in DOMAIN file_line_counts /\ file_line_counts[f] = LineCount(disk, f)
        /\ resp.work.opened = Cardinality(StoredFiles(call.rt, disk) \ DOMAIN PreIndex)
        /\ (StoredFiles(call.rt, disk) \subseteq DOMAIN PreIndex) => resp.work.opened = 0

\* the files the page of a full-mode search of SpecCall opened (get_fhir_resources_page
\* finds resource_cache empty)
PageReads ==
    get_fhir_resources_page(call.rt,
                            create_search_filter(call.rt, FHIRSearchParameters(call.params)),
                            Some(get_count(FHIRSearchParameters(call.params))),
                            EmptyCache, disk).opened

\* the call is a full-mode search of a known record type that compiled no predicate
\* and was answered with an envelope
FullModeUnfiltered ==
    /\ SearchAnswered
    /\ call.rt \in KnownTypes
    /\ ~CountOnly(call.params)
    /\ create_search_filter(call.rt, FHIRSearchParameters(call.params)) = None

(***************************************************************************)
(* C20 for every unfiltered count, the one behind the total of a full-mode *)
(* search included: the total is the sum of the non-blank line counts of   *)
(* the type's configured files, only the files missing from the            *)
(* LineCountIndex are read for it and their counts are stored, and once    *)
(* the index holds all the type's files the count reads no file.           *)
(***************************************************************************)
C20_EveryUnfilteredCountFromIndex ==
    /\ C20_UnfilteredCountFromIndex
    /\ FullModeUnfiltered =>
           /\ resp.bundle.total = SumLineCounts(FILE_MAPPINGS[call.rt], disk)
           /\ \A f \in StoredFiles(call.rt, disk) :
                  f \in DOMAIN file_line_counts /\ file_line_counts[f] = LineCount(disk, f)
           /\ resp.work.opened - PageReads
                  = Cardinality(StoredFiles(call.rt, disk) \ DOMAIN PreIndex)

\* an unfiltered count before the startup pass: the first configured file does not
\* exist, the second is read and its line count stored
C20_Witness ==
    /\ call.op = "count"
    /\ call.rt = "Observation"
    /\ call.params = NoParams
    /\ ~started
    /\ FILE_MAPPINGS["Observation"][1] \notin DOMAIN disk
    /\ FILE_MAPPINGS["Observation"][2] \in DOMAIN disk
    /\ resp.total = 1
    /\ resp.work.opened = 1
    /\ file_line_counts[FILE_MAPPINGS["Observation"][2]] = 1

\* the step serves a read of a known record type
ServesRead == call'.op = "read" /\ call'.rt \in KnownTypes /\ vars' # vars

\* the read is answered from the record cache: no predicate compiled, no file opened,
\* the record returned (unless not-modified is) is the one the cache holds
AnsweredFromRecordCache ==
    LET key == ResourceKey(call'.rt, call'.id)
    IN /\ resp'.work.hit
       /\ resp'.work.compiled = 0
       /\ resp'.work.opened = 0
       /\ resp'.kind \in {"resource", "not_modified"}
       /\ resp'.kind = "resource" => resp'.resource = resource_cache[key]
       /\ resource_cache' = resource_cache

\* the read falls back to a scan of the store; the record found is returned (unless
\* not-modified is) and stored under (type, id), and nothing is stored when none is found
ScannedAndStored ==
    LET key == ResourceKey(call'.rt, call'.id)
    IN /\ ~resp'.work.hit
       /\ resp'.work.compiled = 1
       /\ IF HasRecord(disk, call'.rt, call'.id)
              THEN /\ resp'.kind \in {"resource", "not_modified"}
                   /\ resp'.work.opened >= 1
                   /\ key \in DOMAIN resource_cache'
                   /\ resource_cache'[key].id = Some(call'.id)
                   /\ resp'.kind = "resource" => resp'.resource = resource_cache'[key]
          ELSE /\ resp'.kind = "not_found"
               /\ key \notin DOMAIN resource_cache'

\* every record entry is kept, with its record, by the step
RecordEntriesKept ==
    \A k \in DOMAIN resource_cache :
        k.space = "resource" => k \in DOMAIN resource_cache' /\ resource_cache'[k] = resource_cache[k]

(***************************************************************************)
(* C18: record cache lookup order.  After a successful read of (type, id)  *)
(* every later read of the same (type, id), with no clear() in between, is *)
(* answered from the record cache without scanning any backing file and    *)
(* returns the same record; a read that misses the cache falls back to a   *)
(* store scan and stores the found record under (type, id).  Stated step   *)
(* by step: a read whose key the cache holds is answered from it, a read   *)
(* whose key it does not hold scans and stores, and only clear() removes   *)
(* or changes a record entry.                                              *)
(***************************************************************************)
C18_RecordCacheLookupOrder ==
    [][/\ ServesRead =>
              IF ResourceKey(call'.rt, call'.id) \in DOMAIN resource_cache
                  THEN AnsweredFromRecordCache
              ELSE ScannedAndStored
       /\ call'.op # "clear" => RecordEntriesKept]_vars

\* a read answered from the record cache with the record a former read stored
C18_Witness ==
    /\ call.op = "read"
    /\ resp.kind = "resource"
    /\ resp.work.hit
    /\ resp.work.opened = 0
    /\ resp.resource = resource_cache[ResourceKey(call.rt, call.id)]
    /\ resp.resource.id = Some(call.id)

\* the reply the handler gives, from the state the step starts in, to the request
\* served by the step when it carries no If-None-Match header
PlainReply ==
    IF call'.op = "search"
        THEN fhir_resource_search([call' EXCEPT !.inm = None], bundle_cache, resource_cache,
                                  file_line_counts, disk).resp
    ELSE fhir_resource_read([call' EXCEPT !.inm = None], bundle_cache, resource_cache,
                            file_line_counts, disk).resp

\* the client presents the validator: as W/"<validator>", "<validator>" or <validator>
Presents(inm, validator) ==
    inm \in {Some(WeakHeader(validator)), Some(StrongHeader(validator)),
             Some(BareHeader(validator))}

\* the step serves a read or a full-mode search
ServesReadOrFullSearch ==
    \/ call'.op = "read"
    \/ call'.op = "search" /\ ~CountOnly(call'.params)

\* plain is the value about to be returned with its validator: not-modified without
\* a body when the validator is presented, plain itself otherwise
Revalidated(plain) ==
    IF Presents(call'.inm, plain.etag[1])
        THEN /\ resp'.kind = "not_modified"
             /\ resp'.bundle = NoBundle
             /\ resp'.resource = EmptyResource
             /\ resp'.etag = plain.etag
    ELSE resp' = plain

(***************************************************************************)
(* C11: conditional re-fetch.  For a read of a record or a full-mode       *)
(* search, if the client presents a validator equal to the validator       *)
(* freshly computed for the value about to be returned, the outcome is     *)
(* not-modified and no body is sent; if it presents none or a different    *)
(* validator, the outcome is the value together with its validator.        *)
(***************************************************************************)
C11_ConditionalRefetch ==
    [][(ServesReadOrFullSearch /\ PlainReply.kind \in {"resource", "bundle", "html"}) =>
           /\ PlainReply.etag # None
           /\ Revalidated(PlainReply)]_vars

(***************************************************************************)
(* C11 as the code has it: the above holds for a read of a record and for  *)
(* a full-mode search answered as a JSON envelope; a full-mode search      *)
(* rendered as HTML carries no validator and is answered with the          *)
(* rendering whatever validator is presented.                              *)
(***************************************************************************)
C11_ConditionalRefetchOfJson ==
    [][ServesReadOrFullSearch =>
           /\ PlainReply.kind \in {"resource", "bundle"} =>
                  PlainReply.etag # None /\ Revalidated(PlainReply)
           /\ PlainReply.kind = "html" => resp' = PlainReply /\ resp'.etag = None]_vars

\* a full-mode search answered not-modified to a client presenting "<validator>"
C11_Witness ==
    /\ call.op = "search"
    /\ ~CountOnly(call.params)
    /\ resp.kind = "not_modified"
    /\ resp.etag # None
    /\ call.inm = Some(StrongHeader(resp.etag[1]))
    /\ resp.etag[1].bundle.entry # <<>>

\* the content of a value, whatever the order of its keys: a string, or the mapping
\* from its keys to the content of their values
RECURSIVE ContentOf(_)
ContentOf(data) ==
    IF data.k = "str" THEN [k |-> "str", v |-> data.v, fields |-> <<>>]
    ELSE [k |-> "dict", v |-> "",
          fields |-> [key \in {data.items[i].key : i \in 1..Len(data.items)} |->
                         ContentOf((CHOOSE item \in {data.items[i] : i \in 1..Len(data.items)} :
                                        item.key = key).value)]]

\* two record values that differ in a single field: one key is in only one of them or
\* holds another content, every other key holds the same content in both
DifferInOneField(x, y) ==
    /\ x.k = "dict" /\ y.k = "dict"
    /\ Cardinality({key \in (DOMAIN ContentOf(x).fields) \cup (DOMAIN ContentOf(y).fields) :
                       \/ key \notin DOMAIN ContentOf(x).fields
                       \/ key \notin DOMAIN ContentOf(y).fields
                       \/ ContentOf(x).fields[key] # ContentOf(y).fields[key]}) = 1

\* what the claim says of the validator given and the validator of another value
SameIffSameContent(other) ==
    /\ ContentOf(other) = ContentOf(probe.data) => generate_etag(other) = probe.etag
    /\ DifferInOneField(other, probe.data) => generate_etag(other) # probe.etag

(***************************************************************************)
(* C12: the validator is a deterministic function of content only.  Two    *)
(* values with equal content, whatever the order of their keys, get the    *)
(* identical validator string, and two record values that differ in a      *)
(* single field get different validators.                                  *)
(***************************************************************************)
C12_ValidatorOfContent ==
    probe.fn = "etag" => \A other \in EtagValues : SameIffSameContent(other)

\* the validator of a record whose keys were inserted out of order, at both depths
C12_Witness ==
    /\ probe.fn = "etag"
    /\ probe.data = Dict(<<Item("c", Dict(<<Item("b", Str("u")), Item("a", Str("v"))>>)),
                           Item("a", Str("u"))>>)
    /\ probe.etag = generate_etag(Dict(<<Item("a", Str("u")),
                                         Item("c", Dict(<<Item("a", Str("v")),
                                                          Item("b", Str("u"))>>))>>))

(***************************************************************************)
(* C27: the compiled predicate is a total function: for every parsed query *)
(* and every stored record (a missing or ill-typed modification timestamp, *)
(* a timestamp without an offset against a since value with one or the     *)
(* reverse, included) it answers true or false and never raises.           *)
(***************************************************************************)
C27_PredicateTotal ==
    (probe.fn = "filter" /\ probe.compiled) => probe.verdict \in {"true", "false"}

\* the predicate answers wherever the since clause has nothing to compare or compares
\* two instants that both carry an offset or both carry none
C27_PredicateTotalOnComparable ==
    (/\ probe.fn = "filter" /\ probe.compiled
     /\ SinceSet(probe.params) =>
            Comparable(probe.resource.lastUpdated, probe.params["_since"][1]))
        => probe.verdict \in {"true", "false"}

\* the first n elements of a sequence, all of them when it is shorter
FirstOf(records, n) == SubSeq(records, 1, Min(n, Len(records)))

\* the records the predicate accepts, in order
Accepted(records, filter_func) ==
    SelectSeq(records, LAMBDA r : ApplyFilter(filter_func, r) = "true")

\* the records a scan for need matches has to look at: up to the need-th match
RECURSIVE ScannedFor(_, _, _)
ScannedFor(records, filter_func, need) ==
    IF records = <<>> \/ need <= 0 THEN <<>>
    ELSE <<Head(records)>>
         \o ScannedFor(Tail(records), filter_func,
                       IF ApplyFilter(filter_func, Head(records)) = "true"
                       THEN need - 1 ELSE need)

\* the files a scan for need matches has to open: those that exist, up to the one
\* holding the need-th match
RECURSIVE FilesOpenedFor(_, _, _, _)
FilesOpenedFor(files, dsk, filter_func, need) ==
    IF files = <<>> \/ need <= 0 THEN 0
    ELSE (IF Head(files) \in DOMAIN dsk THEN 1 ELSE 0)
         + FilesOpenedFor(Tail(files), dsk, filter_func,
                          need - Len(Accepted(RecordsOf(FileAt(dsk, Head(files))),
                                              filter_func)))

\* the predicate answers true or false on each of the records
Answers(filter_func, records) ==
    \A i \in 1..Len(records) : ApplyFilter(filter_func, records[i]) # "raise"

\* the page call with a limit of at least 1
PageWithLimit ==
    call.op = "page" /\ call.rt \in KnownTypes /\ call.count # None /\ call.count[1] >= 1

\* the page call returned the first limit matching records and opened no file beyond
\* the one holding the last of them
PagedAsPrefix(filter_func, limit) ==
    /\ resp.kind = "page"
    /\ resp.page = FirstOf(Accepted(Corpus(disk, call.rt), filter_func), limit)
    /\ resp.work.opened = FilesOpenedFor(FILE_MAPPINGS[call.rt], disk, filter_func, limit)

(***************************************************************************)
(* C21: for every limit L >= 1, page(type, pred, L) is the first min(L, m) *)
(* of the m parseable matching records, in line order within each file and *)
(* with the files in configured order; unparseable lines are skipped       *)
(* without aborting the scan, and once L matches are collected no further  *)
(* line or file is read.                                                   *)
(***************************************************************************)
C21_PageIsPrefix ==
    PageWithLimit =>
        PagedAsPrefix(create_search_filter(call.rt, FHIRSearchParameters(call.params)),
                      call.count[1])

\* C21 holds where the predicate answers on every record up to the L-th match; a
\* record beyond it is never looked at
C21_PageIsPrefixWherePredicateAnswers ==
    (/\ PageWithLimit
     /\ Answers(create_search_filter(call.rt, FHIRSearchParameters(call.params)),
                ScannedFor(Corpus(disk, call.rt),
                           create_search_filter(call.rt, FHIRSearchParameters(call.params)),
                           call.count[1])))
        => PagedAsPrefix(create_search_filter(call.rt, FHIRSearchParameters(call.params)),
                         call.count[1])

\* every non-blank line of the disk is a parseable record
AllParse(dsk) == \A f \in DOMAIN dsk : \A i \in 1..Len(dsk[f]) : dsk[f][i].kind # "bad"

\* the count call was answered by the text pre-filter, over files made of records
TextCounted(filter_func) ==
    /\ call.op = "count" /\ resp.kind = "count"
    /\ CountStrategy(Some(FHIRSearchParameters(call.params)), filter_func) = "text"
    /\ AllParse(disk)

\* the total is the one full parsing gives for the same predicate
TotalOfParse(filter_func) ==
    resp.total = count_fhir_resources_json_parse(call.rt, filter_func, disk).total

\* a record of the files references a patient whose id has patient_id as a proper prefix
LongerIdReferenced(dsk, patient_id) ==
    \E f \in DOMAIN dsk : \E i \in 1..Len(dsk[f]) :
        /\ dsk[f][i].kind = "res"
        /\ Contains(SubjectRef(dsk[f][i].res), PatientRef(patient_id))
        /\ ~EndsWith(SubjectRef(dsk[f][i].res), <<"/">> \o patient_id)

\* the records of each file that carry a subject are serialized alike
OneSerialization(dsk) ==
    \A f \in DOMAIN dsk : \A i, j \in 1..Len(dsk[f]) :
        (dsk[f][i].kind = "res" /\ dsk[f][j].kind = "res"
         /\ dsk[f][i].res.subject # None /\ dsk[f][j].res.subject # None)
            => dsk[f][i].fmt = dsk[f][j].fmt

(***************************************************************************)
(* C28: for a predicate that is a single subject/patient clause for        *)
(* patient id P, over files in which the text Patient/<id> occurs in a     *)
(* line only as that record's subject reference, the text pre-filter count *)
(* equals the full-parse count of the same predicate, also when a file has *)
(* no record referencing P but records referencing a patient whose id has  *)
(* P as a proper prefix (the count for P is then 0).                       *)
(***************************************************************************)
C28_TextCountIsParseCount ==
    TextCounted(create_search_filter(call.rt, FHIRSearchParameters(call.params)))
        => TotalOfParse(create_search_filter(call.rt, FHIRSearchParameters(call.params)))

\* C28 holds over files that serialize their references alike and reference no
\* patient whose id has P as a proper prefix
C28_TextCountIsParseCountOfExactIds ==
    (/\ TextCounted(create_search_filter(call.rt, FHIRSearchParameters(call.params)))
     /\ OneSerialization(disk)
     /\ ~LongerIdReferenced(disk, PatientIdOf(FHIRSearchParameters(call.params))))
        => TotalOfParse(create_search_filter(call.rt, FHIRSearchParameters(call.params)))

\* the reply the service, in the state the call left, gives to a search request
Replay(request) ==
    fhir_resource_search(request, bundle_cache, resource_cache, file_line_counts, disk).resp

\* the other reply is an envelope with the total of the one given
TotalIs(other) ==
    other.kind \in {"bundle", "html"} /\ other.bundle.total = resp.bundle.total

(***************************************************************************)
(* C29: for every record type and every set of filter parameters, the      *)
(* total of the count-only response (_summary=count) equals the total of   *)
(* the full-mode envelope for the same type and filter parameters, whether *)
(* that envelope is freshly resolved or served from the result-set cache.  *)
(* After a search answered in either mode, the same request repeated, its  *)
(* count-only form and its full-mode form all carry the total given.       *)
(***************************************************************************)
C29_CountOnlyTotalIsFullTotal ==
    (SearchAnswered /\ call.rt \in KnownTypes) =>
        /\ TotalIs(Replay(call))
        /\ TotalIs(Replay([call EXCEPT !.params["_summary"] = Some(<<"count">>)]))
        /\ TotalIs(Replay([call EXCEPT !.params["_summary"] = None]))

\* a filtered full-mode search that left its envelope in the result-set cache, over a
\* file holding a record the filter rejects
C29_Witness ==
    /\ call.op = "search" /\ resp.kind = "bundle"
    /\ call.params["subject"] = Some(<<"p">>)
    /\ call.params["_summary"] = None
    /\ resp.bundle.total = 1
    /\ Len(Corpus(disk, call.rt)) = 2
    /\ Replay(call).work.hit
    /\ ~Replay([call EXCEPT !.params["_summary"] = Some(<<"count">>)]).work.hit

\* every entry of the LineCountIndex is the non-blank line count of its file
IndexExact ==
    \A f \in DOMAIN file_line_counts :
        f \in DOMAIN disk /\ file_line_counts[f] = LineCount(disk, f)

\* every entry of the LineCountIndex is kept, with its value, by the step
IndexEntriesKept ==
    \A f \in DOMAIN file_line_counts :
        f \in DOMAIN file_line_counts' /\ file_line_counts'[f] = file_line_counts[f]

(***************************************************************************)
(* C25: once a LineCountIndex entry for a file has been written (at        *)
(* startup or lazily on the first miss) its value never changes for the    *)
(* rest of the process, always equals that file's non-blank line count,    *)
(* and no operation (search, read, count, clear()) removes it or           *)
(* overwrites it with a different value.                                   *)
(***************************************************************************)
C25_IndexEntriesImmutable == [](IndexExact) /\ [][IndexEntriesKept]_vars

\* an entry written lazily by a count (no startup pass), for a file with a blank line,
\* still there after a clear()
C25_Witness ==
    /\ ~started
    /\ call.op = "clear"
    /\ FILE_MAPPINGS["Patient"][1] \in DOMAIN file_line_counts
    /\ file_line_counts[FILE_MAPPINGS["Patient"][1]] = 1
    /\ Len(disk[FILE_MAPPINGS["Patient"][1]]) = 2

\* the step leaves the entry of key k of a cache as it is: there with the same value,
\* or not there
EntryUntouched(cache, cache_after, k) ==
    IF k \in DOMAIN cache THEN k \in DOMAIN cache_after /\ cache_after[k] = cache[k]
    ELSE k \notin DOMAIN cache_after

\* a read touches no result-set entry and no entry of resource_cache but its own
ReadTouchesOwnRecordOnly ==
    /\ bundle_cache' = bundle_cache
    /\ \A k \in (DOMAIN resource_cache) \cup (DOMAIN resource_cache') :
           k # ResourceKey(call'.rt, call'.id)
               => EntryUntouched(resource_cache, resource_cache', k)

\* a search changes or removes no (type, id) record entry
SearchKeepsRecords ==
    \A k \in DOMAIN resource_cache :
        k.space = "resource" => EntryUntouched(resource_cache, resource_cache', k)

\* no entry of either cache is removed
NothingRemoved ==
    /\ DOMAIN resource_cache \subseteq DOMAIN resource_cache'
    /\ DOMAIN bundle_cache \subseteq DOMAIN bundle_cache'

(***************************************************************************)
(* C22: the two cache key spaces are independent.  An individual-resource  *)
(* read changes at most the record-cache entry of its own (type, id) and   *)
(* never adds, changes or removes a result-set cache entry; a search never *)
(* changes or removes an existing (type, id) record entry; entries are     *)
(* removed only by clear(), which empties both spaces.                     *)
(***************************************************************************)
C22_KeySpacesIndependent ==
    [][/\ call'.op = "read" => ReadTouchesOwnRecordOnly
       /\ call'.op = "search" => SearchKeepsRecords
       /\ IF call'.op = "clear"
              THEN resource_cache' = EmptyCache /\ bundle_cache' = EmptyCache
          ELSE NothingRemoved]_vars

\* a read that stored its record after searches had left an envelope in the result-set
\* cache and a page under a page key
C22_Witness ==
    /\ call.op = "read"
    /\ resp.kind = "resource"
    /\ ~resp.work.hit
    /\ ResourceKey(call.rt, call.id) \in DOMAIN resource_cache
    /\ \E k \in DOMAIN resource_cache : k.space = "page"
    /\ DOMAIN bundle_cache # {}

\* the entry under key k of the record cache is one record of the key's type whose id
\* is the key's id
HoldsItsRecord(k) ==
    /\ resource_cache[k].id = Some(k.id)
    /\ \E i \in 1..Len(Corpus(disk, k.rt)) : Corpus(disk, k.rt)[i] = resource_cache[k]

(***************************************************************************)
(* C23: every entry of the record cache is keyed by a (recordType, id)     *)
(* pair and holds one single Record of that type whose id field equals the *)
(* key's id; nothing else (no page, no list of records) is ever stored in  *)
(* the record key space.                                                   *)
(***************************************************************************)
C23_RecordCacheHoldsRecordsOnly ==
    \A k \in DOMAIN resource_cache : k.space = "resource" /\ HoldsItsRecord(k)

\* the part of C23 that holds: an entry under a (type, id) key is that record
C23_RecordKeysHoldTheirRecord ==
    \A k \in DOMAIN resource_cache : k.space = "resource" => HoldsItsRecord(k)

\* the step serves a read or a search that ends in not-found
EndsInNotFound == call'.op \in {"read", "search"} /\ resp'.kind = "not_found" /\ vars' # vars

\* the same request, served again from the state the step leaves, is resolved anew:
\* not-found again, and for a known type after scanning the store
ResolvedAgain(again) ==
    /\ again.kind = "not_found"
    /\ ~again.work.hit
    /\ again.work = resp'.work

(***************************************************************************)
(* C30: a request that ends in not-found leaves all shared state           *)
(* unchanged: a read of an unknown type or of an id with no record, and a  *)
(* search of an unknown type, add no entry to and remove no entry from the *)
(* record cache and the result-set cache (no negative result is cached),   *)
(* so a later identical request is resolved again from the store.          *)
(***************************************************************************)
C30_NotFoundLeavesStateUnchanged ==
    [][EndsInNotFound =>
           /\ resource_cache' = resource_cache
           /\ bundle_cache' = bundle_cache
           /\ file_line_counts' = file_line_counts
           /\ ResolvedAgain(IF call'.op = "read"
                            THEN fhir_resource_read(call', bundle_cache', resource_cache',
                                                    file_line_counts', disk').resp
                            ELSE fhir_resource_search(call', bundle_cache', resource_cache',
                                                      file_line_counts', disk').resp)]_vars

\* a read of an id no record has, which opened the file and found nothing, served
\* while both caches held entries
C30_Witness ==
    /\ call.op = "read" /\ call.rt = "Patient"
    /\ resp.kind = "not_found"
    /\ resp.work.opened = 1
    /\ ResourceKey("Patient", call.id) \notin DOMAIN resource_cache
    /\ \E k \in DOMAIN resource_cache : k.space = "resource"
    /\ DOMAIN bundle_cache # {}

\* the call is a search answered with a full-mode envelope
FullModeAnswered == SearchAnswered /\ ~CountOnly(call.params)

\* the envelope's self link is the URL of the request and its entry identifiers are
\* built from the request's base URL
CarriesOwnUrl(request, bundle) ==
    /\ bundle.link = Some(SelfUrl(request))
    /\ \A i \in 1..Len(bundle.entry) :
           bundle.entry[i].fullUrl
               = <<get_base_url(request), request.rt, bundle.entry[i].resource.id[1]>>

(***************************************************************************)
(* C26: every full-mode envelope returned, including one served from the   *)
(* result-set cache, carries a self link equal to the URL of the request   *)
(* being answered and entry identifiers built from that request's base     *)
(* URL: two requests with the same query signature but a different host or *)
(* scheme each receive their own URL, never the URL of the request that    *)
(* filled the cache.                                                       *)
(***************************************************************************)
C26_EnvelopeCarriesOwnUrl == FullModeAnswered => CarriesOwnUrl(call, resp.bundle)

\* C26 holds for the envelopes that are freshly resolved
C26_FreshEnvelopeCarriesOwnUrl ==
    (FullModeAnswered /\ resp.work.assembled) => CarriesOwnUrl(call, resp.bundle)

\* what one request, served alone by a process whose caches and index are empty,
\* stores under key k of the result-set cache
AloneBundle(k, base) ==
    fhir_search(k.rt, Call("search", k.rt, k.params, None, <<>>, None, base),
                EmptyCache, EmptyCache, EmptyDisk, disk).bcache

\* ... and under key k of resource_cache: the record of a read, the page of an
\* unfiltered search
AloneResources(k) ==
    IF k.space = "resource"
        THEN fhir_resource_read(Call("read", k.rt, NoParams, None, k.id, None, ""),
                                EmptyCache, EmptyCache, EmptyDisk, disk).rcache
    ELSE get_fhir_resources_page(k.rt, None, k.count, EmptyCache, disk).rcache

\* the cache holds key k with the value the cache c of a request served alone holds
AsAlone(cache, k, c) == k \in DOMAIN c /\ cache[k] = c[k]

(***************************************************************************)
(* C24: under any interleaving of concurrent requests, several requests    *)
(* that miss at the same time on the same key (the line count of one file, *)
(* one result-set signature, one record key) included, the shared          *)
(* structures are never corrupted: each LineCountIndex entry equals its    *)
(* file's non-blank line count and each cache entry equals the value a     *)
(* single sequential resolution of that key would have stored.             *)
(***************************************************************************)
C24_NoCorruptionUnderOverlap ==
    /\ \A f \in DOMAIN file_line_counts : file_line_counts[f] = LineCount(disk, f)
    /\ \A k \in DOMAIN bundle_cache :
           \E base \in Hosts : AsAlone(bundle_cache, k, AloneBundle(k, base))
    /\ \A k \in DOMAIN resource_cache : AsAlone(resource_cache, k, AloneResources(k))

\* two requests of one result-set signature overlap: the handler of one has run,
\* missed and stored its envelope, while the other, accepted under the other base
\* URL, is still pending and will find that entry
C24_Witness ==
    /\ call.op = "search"
    /\ resp.kind = "bundle"
    /\ resp.work.assembled
    /\ BundleKey(call.rt, call.params) \in DOMAIN bundle_cache
    /\ bundle_cache[BundleKey(call.rt, call.params)].total = 1
    /\ \E slot \in DOMAIN inflight :
           /\ inflight[slot].op = "search"
           /\ inflight[slot].params = call.params
           /\ inflight[slot].base # call.base

=============================================================================
